---- MODULE Spec2Model ----
(***************************************************************************)
(* Verification model of the website design-token extractor                *)
(* (lib/website-extractor): the orchestrator runAllExtractors, the colour  *)
(* utilities (color-convert.js, delta-e.js), the confidence module and the *)
(* colours extractor's aggregation.                                        *)
(*                                                                         *)
(* JavaScript values are encoded as tuples of strings so that any two of   *)
(* them can be compared: <<"undefined">>, <<"ok", e>> (the category result *)
(* extractor e returned), <<"stub", m>> (the object {error: m}), ...       *)
(***************************************************************************)
EXTENDS Integers, Sequences, FiniteSets, TLC

VARIABLES
  pc,          \* runAllExtractors: "idle", "awaiting", "returned", "rejected"
  extState,    \* per extractor promise: "idle", "pending", "fulfilled", "rejected"
  extPc,       \* per extractor: index of the snapshot call it awaits (0: none)
  extThrown,   \* per extractor: the value it rejected with
  values,      \* Promise.all: the values array, one slot per array position
  remaining,   \* Promise.all: elements not yet resolved
  result,      \* the object runAllExtractors returned
  thrown,      \* the reason runAllExtractors rejected with
  cIn,         \* colour utilities: the string under conversion
  cOut,        \* normalizeToHex(cIn)
  cTrip,       \* normalizeToHex(formatRgb(hexToRgb(cIn)))
  cPc,         \* "input", "normalized", "tripped"
  dIn,         \* deduplicateColors: the input list of colour records
  dThr,        \* the Delta-E threshold
  dOut1,       \* deduplicateColors(dIn, dThr)
  dOut2,       \* deduplicateColors(dOut1, dThr)
  dPc,         \* "input", "once", "twice"
  pIn,         \* processColors: the raw samples of the page
  pOut,        \* processColors(pIn)
  pPc,         \* "input", "done"
  callArg,     \* a call of one exported function: its name and arguments
  callRet,     \* the value the call returned
  callPc       \* "called", "returned"

orchVars  == <<pc, extState, extPc, extThrown, values, remaining, result, thrown>>
colorVars == <<cIn, cOut, cTrip, cPc>>
dedupVars == <<dIn, dThr, dOut1, dOut2, dPc>>
procVars  == <<pIn, pOut, pPc>>
callVars  == <<callArg, callRet, callPc>>
vars == <<orchVars, colorVars, dedupVars, procVars, callVars>>

\* No exported function has been called.
CallIdle == callArg = <<>> /\ callRet = <<>> /\ callPc = "idle"

(***************************************************************************)
(* JavaScript strings and numbers                                          *)
(*                                                                         *)
(* A string is a sequence of one-character strings.  A number is a record  *)
(* [nan, n, d]: NaN, or the rational n/d with d > 0.                       *)
(***************************************************************************)

RECURSIVE Gcd(_, _)
Gcd(a, b) == IF b = 0 THEN a ELSE Gcd(b, a % b)
Abs(k) == IF k < 0 THEN 0 - k ELSE k

Num(k)    == [nan |-> FALSE, n |-> k, d |-> 1]
\* k/m in lowest terms, m > 0
Rat(k, m) == LET g == Gcd(Abs(k), m) IN [nan |-> FALSE, n |-> k \div g, d |-> m \div g]
NaN       == [nan |-> TRUE, n |-> 0, d |-> 1]

IsZero(x) == ~x.nan /\ x.n = 0
RLt(x, y) == ~x.nan /\ ~y.nan /\ x.n * y.d < y.n * x.d
RAdd(x, y) ==
  IF x.nan \/ y.nan THEN NaN
  ELSE LET g == Gcd(x.d, y.d)
       IN Rat(x.n * (y.d \div g) + y.n * (x.d \div g), (x.d \div g) * y.d)
RNeg(x) == IF x.nan THEN NaN ELSE [nan |-> FALSE, n |-> 0 - x.n, d |-> x.d]
RSub(x, y) == RAdd(x, RNeg(y))
RMul(x, y) ==
  IF x.nan \/ y.nan THEN NaN
  ELSE LET g1 == Gcd(Abs(x.n), y.d)
           g2 == Gcd(Abs(y.n), x.d)
       IN Rat((x.n \div g1) * (y.n \div g2), (x.d \div g2) * (y.d \div g1))
\* x / k for an integer k > 0
RDivInt(x, k) == IF x.nan THEN NaN ELSE Rat(x.n, x.d * k)

\* Math.round: the nearest integer, halves upwards.
MathRound(x) == IF x.nan THEN NaN ELSE Num((2 * x.n + x.d) \div (2 * x.d))

\* Math.max(0, Math.min(255, n)) for the integers and NaN rgbToHex is given.
Clamp255(x) ==
  IF x.nan THEN NaN
  ELSE IF RLt(x, Num(0)) THEN Num(0)
  ELSE IF RLt(Num(255), x) THEN Num(255)
  ELSE x

DigitChars == <<"0", "1", "2", "3", "4", "5", "6", "7", "8", "9">>
HexChars   == DigitChars \o <<"a", "b", "c", "d", "e", "f">>
UpperChars ==
  <<"A", "B", "C", "D", "E", "F", "G", "H", "I", "J", "K", "L", "M",
    "N", "O", "P", "Q", "R", "S", "T", "U", "V", "W", "X", "Y", "Z">>
LowerChars ==
  <<"a", "b", "c", "d", "e", "f", "g", "h", "i", "j", "k", "l", "m",
    "n", "o", "p", "q", "r", "s", "t", "u", "v", "w", "x", "y", "z">>

Range(s) == {s[i] : i \in 1..Len(s)}

\* const v = x; F(v): x is evaluated once and named.
Bind(x, F(_)) == CHOOSE r \in {F(v) : v \in {x}} : TRUE
PosIn(c, s) == CHOOSE i \in 1..Len(s) : s[i] = c

LowerChar(c) == IF c \in Range(UpperChars) THEN LowerChars[PosIn(c, UpperChars)] ELSE c
UpperChar(c) == IF c \in Range(LowerChars) THEN UpperChars[PosIn(c, LowerChars)] ELSE c

toLowerCase(s) == [i \in 1..Len(s) |-> LowerChar(s[i])]
toUpperCase(s) == [i \in 1..Len(s) |-> UpperChar(s[i])]

IsSpace(c) == c = " "
IsDigit(c) == c \in Range(DigitChars)

\* s.slice(i - 1, j) in JavaScript's 0-based terms: the characters i..j that
\* the string has.
Slice(s, i, j) ==
  LET lo == IF i < 1 THEN 1 ELSE i
      hi == IF j > Len(s) THEN Len(s) ELSE j
  IN IF lo > hi THEN <<>> ELSE SubSeq(s, lo, hi)

\* First position >= i of s whose character fails the test, Len(s)+1 if none.
RECURSIVE SkipSpaces(_, _)
SkipSpaces(s, i) ==
  IF i <= Len(s) /\ IsSpace(s[i]) THEN SkipSpaces(s, i + 1) ELSE i

RECURSIVE SkipIn(_, _, _)
SkipIn(s, i, set) ==
  IF i <= Len(s) /\ s[i] \in set THEN SkipIn(s, i + 1, set) ELSE i

RECURSIVE TrimEnd(_)
TrimEnd(s) ==
  IF Len(s) > 0 /\ IsSpace(s[Len(s)]) THEN TrimEnd(SubSeq(s, 1, Len(s) - 1)) ELSE s

trim(s) == TrimEnd(Slice(s, SkipSpaces(s, 1), Len(s)))

startsWith(s, p) == Len(s) >= Len(p) /\ SubSeq(s, 1, Len(p)) = p

\* The value of a run of digits of the radix, most significant first.
RECURSIVE DigitsValue(_, _)
DigitsValue(s, radix) ==
  IF s = <<>> THEN 0
  ELSE DigitsValue(SubSeq(s, 1, Len(s) - 1), radix) * radix
         + (PosIn(LowerChar(s[Len(s)]), HexChars) - 1)

RadixChars(radix) == Range(SubSeq(HexChars, 1, radix))

\* parseInt(s, radix): leading white space, a sign, for radix 16 a 0x prefix,
\* then the longest run of digits of the radix; NaN when that run is empty.
parseInt(s, radix) ==
  LET a    == SkipSpaces(s, 1)
      neg  == a <= Len(s) /\ s[a] = "-"
      b    == IF a <= Len(s) /\ s[a] \in {"-", "+"} THEN a + 1 ELSE a
      c    == IF radix = 16 /\ b + 1 <= Len(s) /\ s[b] = "0" /\ LowerChar(s[b + 1]) = "x"
                THEN b + 2 ELSE b
      low  == toLowerCase(s)
      e    == SkipIn(low, c, RadixChars(radix))
      v    == DigitsValue(Slice(low, c, e - 1), radix)
  IN IF e = c THEN NaN ELSE Num(IF neg THEN 0 - v ELSE v)

RECURSIVE Pow10(_)
Pow10(k) == IF k = 0 THEN 1 ELSE 10 * Pow10(k - 1)

\* parseFloat on a string of digits and dots (the regular expressions'
\* [\d.]+): digits, one dot, digits; NaN when there is no digit.
parseFloat(s) ==
  LET e1   == SkipIn(s, 1, Range(DigitChars))
      dot  == e1 <= Len(s) /\ s[e1] = "."
      e2   == IF dot THEN SkipIn(s, e1 + 1, Range(DigitChars)) ELSE e1
      ip   == Slice(s, 1, e1 - 1)
      fp   == IF dot THEN Slice(s, e1 + 1, e2 - 1) ELSE <<>>
  IN IF ip = <<>> /\ fp = <<>> THEN NaN
     ELSE Rat(DigitsValue(ip, 10) * Pow10(Len(fp)) + DigitsValue(fp, 10), Pow10(Len(fp)))

\* Number to string: n.toString(radix) and `${n}` for integers and NaN.
RECURSIVE NatToString(_, _)
NatToString(k, radix) ==
  IF k < radix THEN <<HexChars[k + 1]>>
  ELSE NatToString(k \div radix, radix) \o <<HexChars[(k % radix) + 1]>>

NumberToString(x, radix) ==
  IF x.nan THEN <<"N", "a", "N">>
  ELSE IF x.n < 0 THEN <<"-">> \o NatToString(0 - x.n, radix)
  ELSE NatToString(x.n, radix)

(***************************************************************************)
(* color-convert.js                                                        *)
(***************************************************************************)

Null == [null |-> TRUE, r |-> NaN, g |-> NaN, b |-> NaN, a |-> NaN]
Rgb(r, g, b, a) == [null |-> FALSE, r |-> r, g |-> g, b |-> b, a |-> a]
NullStr == <<"null">>

\* hexToRgb(hex), for the digits h left after removing '#' and expanding the
\* three-digit shorthand
HexDigitsToRgb(h) ==
  IF Len(h) = 8
    THEN Rgb(parseInt(Slice(h, 1, 2), 16), parseInt(Slice(h, 3, 4), 16),
             parseInt(Slice(h, 5, 6), 16),
             RDivInt(parseInt(Slice(h, 7, 8), 16), 255))
  ELSE IF Len(h) # 6 THEN Null
  ELSE Rgb(parseInt(Slice(h, 1, 2), 16), parseInt(Slice(h, 3, 4), 16),
           parseInt(Slice(h, 5, 6), 16), Num(1))

\* h.split('').map(c => c + c).join('') when h has three characters
ExpandShorthand(h) ==
  IF Len(h) = 3 THEN <<h[1], h[1], h[2], h[2], h[3], h[3]>> ELSE h

\* hex.replace(/^#/, '')
StripHash(hex) == IF startsWith(hex, <<"#">>) THEN Slice(hex, 2, Len(hex)) ELSE hex

\* hexToRgb(hex)
hexToRgb(hex) ==
  IF hex = <<>> THEN Null
  ELSE Bind(Bind(StripHash(hex), ExpandShorthand), HexDigitsToRgb)

\* A toHex that does not pad a single digit with a zero.
toHexNoPad(x) == NumberToString(MathRound(Clamp255(x)), 16)

\* toHex(n) of rgbToHex: two hexadecimal digits of the clamped, rounded n
toHex(x) ==
  LET hex == NumberToString(MathRound(Clamp255(x)), 16)
  IN IF Len(hex) = 1 THEN <<"0">> \o hex ELSE hex

\* rgbToHex(rgb): a string, or null (encoded <<"null">>) for a null rgb.
rgbToHex(rgb) ==
  IF rgb.null THEN NullStr
  ELSE toUpperCase(<<"#">> \o toHex(rgb.r) \o toHex(rgb.g) \o toHex(rgb.b))

\* hue2rgb(p, q, t) of hslToRgb
hue2rgb(p, q, t0) ==
  LET t1 == IF RLt(t0, Num(0)) THEN RAdd(t0, Num(1)) ELSE t0
      t  == IF RLt(Num(1), t1) THEN RSub(t1, Num(1)) ELSE t1
  IN IF RLt(t, Rat(1, 6)) THEN RAdd(p, RMul(RMul(RSub(q, p), Num(6)), t))
     ELSE IF RLt(t, Rat(1, 2)) THEN q
     ELSE IF RLt(t, Rat(2, 3))
       THEN RAdd(p, RMul(RMul(RSub(q, p), RSub(Rat(2, 3), t)), Num(6)))
     ELSE p

\* hslToRgb(h, s, l): h an integer, s and l numbers; no alpha.  Computed in
\* exact rationals: where the exact channel value is a half-integer the
\* source's doubles may round the other way, so no such input is drawn.
hslToRgb(h, s, l) ==
  LET q == IF RLt(l, Rat(1, 2)) THEN RMul(l, RAdd(Num(1), s))
           ELSE RSub(RAdd(l, s), RMul(l, s))
      p == RSub(RMul(Num(2), l), q)
      r == IF IsZero(s) THEN l ELSE hue2rgb(p, q, RAdd(Rat(h.n, 360), Rat(1, 3)))
      g == IF IsZero(s) THEN l ELSE hue2rgb(p, q, Rat(h.n, 360))
      b == IF IsZero(s) THEN l ELSE hue2rgb(p, q, RSub(Rat(h.n, 360), Rat(1, 3)))
  IN [r |-> MathRound(RMul(r, Num(255))),
      g |-> MathRound(RMul(g, Num(255))),
      b |-> MathRound(RMul(b, Num(255)))]

NoMatch == [ok |-> FALSE, m1 |-> <<>>, m2 |-> <<>>, m3 |-> <<>>, m4 |-> <<>>]

\* One attempt of the regular expressions of parseColor at position i of s:
\*   name a? \( \s* (\d+) \s* , \s* (N) pct \s* , \s* (N) pct \s*
\*   (?: , \s* ([\d.]+) )? \s* \)
\* where name is rgb and N is \d+ with no pct (rgb), or name is hsl and N is
\* [\d.]+ followed by % (hsl).
MatchAt(s, i, name, isHsl) ==
  LET ch(k)  == IF k <= Len(s) THEN s[k] ELSE ""
      digs   == Range(DigitChars)
      dots   == digs \cup {"."}
      argSet == IF isHsl THEN dots ELSE digs
      p1 == IF ch(i + 3) = "a" THEN i + 4 ELSE i + 3
      a1 == SkipSpaces(s, p1 + 1)
      e1 == SkipIn(s, a1, digs)
      c1 == SkipSpaces(s, e1)
      a2 == SkipSpaces(s, c1 + 1)
      e2 == SkipIn(s, a2, argSet)
      f2 == IF isHsl THEN e2 + 1 ELSE e2
      c2 == SkipSpaces(s, f2)
      a3 == SkipSpaces(s, c2 + 1)
      e3 == SkipIn(s, a3, argSet)
      f3 == IF isHsl THEN e3 + 1 ELSE e3
      w  == SkipSpaces(s, f3)
      a4 == SkipSpaces(s, w + 1)
      e4 == SkipIn(s, a4, dots)
      z  == SkipSpaces(s, e4)
      head == /\ Slice(s, i, i + 2) = name
              /\ ch(p1) = "("
              /\ e1 > a1 /\ ch(c1) = ","
              /\ e2 > a2 /\ (isHsl => ch(e2) = "%") /\ ch(c2) = ","
              /\ e3 > a3 /\ (isHsl => ch(e3) = "%")
      withAlpha == ch(w) = "," /\ e4 > a4 /\ ch(z) = ")"
  IN IF head /\ withAlpha
       THEN [ok |-> TRUE, m1 |-> Slice(s, a1, e1 - 1), m2 |-> Slice(s, a2, e2 - 1),
             m3 |-> Slice(s, a3, e3 - 1), m4 |-> Slice(s, a4, e4 - 1)]
     ELSE IF head /\ ch(w) = ")"
       THEN [ok |-> TRUE, m1 |-> Slice(s, a1, e1 - 1), m2 |-> Slice(s, a2, e2 - 1),
             m3 |-> Slice(s, a3, e3 - 1), m4 |-> <<>>]
     ELSE NoMatch

\* str.match(re): the leftmost position at which the expression matches.
Match(s, name, isHsl) ==
  LET hits == {i \in 1..Len(s) : MatchAt(s, i, name, isHsl).ok}
  IN IF hits = {} THEN NoMatch
     ELSE MatchAt(s, CHOOSE i \in hits : \A j \in hits : i <= j, name, isHsl)

Transparent == <<"t", "r", "a", "n", "s", "p", "a", "r", "e", "n", "t">>

\* The alpha group of a match: parseFloat of it, or 1 when it is missing.
AlphaOf(m) == IF m.m4 # <<>> THEN parseFloat(m.m4) ELSE Num(1)

\* parseColor, the rgb()/rgba() branch
ParseRgb(m) ==
  Rgb(parseInt(m.m1, 10), parseInt(m.m2, 10), parseInt(m.m3, 10), AlphaOf(m))

\* parseColor, the hsl()/hsla() branch: { ...hslToRgb(h, s, l), a }
WithAlpha(hsl, m) == Rgb(hsl.r, hsl.g, hsl.b, AlphaOf(m))
ParseHsl(m) ==
  Bind(hslToRgb(parseInt(m.m1, 10), RDivInt(parseFloat(m.m2), 100),
                RDivInt(parseFloat(m.m3), 100)),
       LAMBDA hsl : WithAlpha(hsl, m))

\* parseColor on the trimmed, lower-cased string
TryHsl(hslMatch) == IF hslMatch.ok THEN ParseHsl(hslMatch) ELSE Null
TryRgb(rgbMatch, str) ==
  IF rgbMatch.ok THEN ParseRgb(rgbMatch)
  ELSE Bind(Match(str, <<"h", "s", "l">>, TRUE), TryHsl)
ParseStr(str) ==
  IF startsWith(str, <<"#">>) THEN hexToRgb(str)
  ELSE Bind(Match(str, <<"r", "g", "b">>, FALSE), LAMBDA m : TryRgb(m, str))

\* parseColor(colorStr)
parseColor(colorStr) ==
  IF colorStr = <<>> \/ colorStr = Transparent THEN Null
  ELSE Bind(toLowerCase(trim(colorStr)), ParseStr)

\* normalizeToHex(colorStr): null for a null rgb, else rgbToHex(rgb)
normalizeToHex(colorStr) == Bind(parseColor(colorStr), rgbToHex)

\* isTransparent(colorStr), once the colour is parsed
TransparentRgb(rgb) ==
  IF rgb.null THEN TRUE
  ELSE IsZero(rgb.a) \/ (IsZero(rgb.r) /\ IsZero(rgb.g) /\ IsZero(rgb.b) /\ IsZero(rgb.a))

\* isTransparent(colorStr)
isTransparent(colorStr) ==
  IF colorStr = <<>> \/ colorStr = Transparent THEN TRUE
  ELSE Bind(parseColor(colorStr), TransparentRgb)

\* formatRgb(rgb): `rgb(${r}, ${g}, ${b})`
formatRgb(rgb) ==
  IF rgb.null THEN NullStr
  ELSE <<"r", "g", "b", "(">> \o NumberToString(rgb.r, 10) \o <<",", " ">>
         \o NumberToString(rgb.g, 10) \o <<",", " ">>
         \o NumberToString(rgb.b, 10) \o <<")">>

(***************************************************************************)
(* color-convert.js: CIE L*a*b* of a colour, and delta-e.js                *)
(*                                                                         *)
(* The floating-point transforms (sRGB linearisation, XYZ, L*a*b*,         *)
(* CIEDE2000) are tabulated, over the colours of the model's palette, from *)
(* the source's formulas in IEEE double arithmetic: L* and Delta-E in      *)
(* thousandths, rounded down.  A comparison with an integer threshold T is *)
(* then exact: dE < T iff floor(1000 dE) < 1000 T.                         *)
(***************************************************************************)

\* #FFFFFF #F2F2F2 #000000 #111111 #0D0D0D #FF0000 #FE0101 #3B82F6 #2563EB #1D4ED8
\* #E5E7EB
PaletteRgb ==
  <<<<255, 255, 255>>, <<242, 242, 242>>, <<0, 0, 0>>, <<17, 17, 17>>,
    <<13, 13, 13>>, <<255, 0, 0>>, <<254, 1, 1>>, <<59, 130, 246>>,
    <<37, 99, 235>>, <<29, 78, 216>>, <<229, 231, 235>>>>

LabLMilli ==
  <<100000, 95493, 0, 5063, 3635, 53240, 53060, 55630, 46059, 39011, 91598>>

\* The chroma sqrt(a*a + b*b) of labToLch, in thousandths, rounded down
LchCMilli ==
  <<0, 0, 0, 0, 0, 104551, 104034, 66766, 80053, 83142, 2174>>

DeltaE2000Milli ==
  <<<<0, 2630, 100000, 93193, 95385, 45810, 45898, 41239, 49396, 55601, 5403>>,
    <<2630, 0, 94063, 90406, 91799, 44034, 44118, 39374, 47467, 53661, 3142>>,
    <<100000, 94063, 0, 2962, 2114, 50411, 50246, 49726, 43603, 39508, 87834>>,
    <<93193, 90406, 2962, 0, 849, 48315, 48151, 47495, 41537, 37628, 85809>>,
    <<95385, 91799, 2114, 849, 0, 48912, 48748, 48132, 42123, 38156, 86533>>,
    <<45810, 44034, 50411, 48315, 48912, 0, 209, 50060, 49839, 50499, 43630>>,
    <<45898, 44118, 50246, 48151, 48748, 209, 0, 50011, 49748, 50381, 43705>>,
    <<41239, 39374, 49726, 47495, 48132, 50060, 50011, 0, 10876, 18249, 35525>>,
    <<49396, 47467, 43603, 41537, 42123, 49839, 49748, 10876, 0, 7131, 43199>>,
    <<55601, 53661, 39508, 37628, 38156, 50499, 50381, 18249, 7131, 0, 49455>>,
    <<5403, 3142, 87834, 85809, 86533, 43630, 43705, 35525, 43199, 49455, 0>>>>

\* rgbToLab(rgb): the palette entry of the colour and its L*; NaN channels
\* give a NaN L*a*b*.
rgbToLab(rgb) ==
  IF rgb.r.nan \/ rgb.g.nan \/ rgb.b.nan THEN [nan |-> TRUE, of |-> 0, l |-> 0]
  ELSE LET k == CHOOSE i \in 1..Len(PaletteRgb) :
                  PaletteRgb[i] = <<rgb.r.n, rgb.g.n, rgb.b.n>>
       IN [nan |-> FALSE, of |-> k, l |-> LabLMilli[k]]

\* deltaE2000(lab1, lab2), in thousandths; NaN when either colour is NaN.
deltaE2000(lab1, lab2) ==
  IF lab1.nan \/ lab2.nan THEN [nan |-> TRUE, milli |-> 0]
  ELSE [nan |-> FALSE, milli |-> DeltaE2000Milli[lab1.of][lab2.of]]

\* dE < threshold, false for NaN
DeltaLt(dE, threshold) == ~dE.nan /\ dE.milli < threshold * 1000

\* isWhite(colorStr, threshold): lab.l >= threshold
WhiteRgb(rgb, threshold) ==
  IF rgb.null THEN FALSE
  ELSE Bind(rgbToLab(rgb), LAMBDA lab : ~lab.nan /\ lab.l >= threshold * 1000)
isWhite(colorStr, threshold) ==
  Bind(parseColor(colorStr), LAMBDA rgb : WhiteRgb(rgb, threshold))

\* isBlack(colorStr, threshold): lab.l <= threshold (no palette colour has an
\* L* within a thousandth above an integer threshold)
BlackRgb(rgb, threshold) ==
  IF rgb.null THEN FALSE
  ELSE Bind(rgbToLab(rgb), LAMBDA lab : ~lab.nan /\ lab.l <= threshold * 1000)
isBlack(colorStr, threshold) ==
  Bind(parseColor(colorStr), LAMBDA rgb : BlackRgb(rgb, threshold))

(***************************************************************************)
(* Colour records: {hex, count, score, confidence, sources, elements}.     *)
(* An optional field is [def, v]; an absent string is "undefined".         *)
(***************************************************************************)

Absent    == [def |-> FALSE, v |-> 0]
Some(x)   == [def |-> TRUE, v |-> x]
AbsentSeq == [def |-> FALSE, v |-> <<>>]

\* [...new Set(arr)]: the first occurrence of each element, in order
RECURSIVE Uniq(_)
Uniq(arr) ==
  IF arr = <<>> THEN <<>>
  ELSE LET front == Uniq(SubSeq(arr, 1, Len(arr) - 1))
           x == arr[Len(arr)]
       IN IF x \in Range(front) THEN front ELSE Append(front, x)

\* const confidenceOrder = { high: 3, medium: 2, low: 1 }; order[c] || 0
ConfidenceOrder(c) ==
  CASE c = "high" -> 3 [] c = "medium" -> 2 [] c = "low" -> 1 [] OTHER -> 0

\* x.count || 1
CountOr1(c) == IF c.count.def /\ c.count.v # 0 THEN c.count.v ELSE 1

\* A merge that leaves the representative's count as it was.
MergeCountKeep(existing, color) == existing.count

\* existing.count = (existing.count || 1) + (color.count || 1)
MergeCount(existing, color) == Some(CountOr1(existing) + CountOr1(color))

\* if (color.sources && existing.sources) existing.sources = [...new Set(...)]
MergeSources(existing, color) ==
  IF color.sources.def /\ existing.sources.def
    THEN Some(Uniq(existing.sources.v \o color.sources.v))
    ELSE existing.sources

\* A merge that takes the confidence of the colour merged in.
MergeConfidenceOfColor(existing, color) == color.confidence

\* if (color.confidence && existing.confidence) keep the higher of the two
MergeConfidence(existing, color) ==
  IF color.confidence # "undefined" /\ existing.confidence # "undefined"
     /\ ConfidenceOrder(color.confidence) > ConfidenceOrder(existing.confidence)
    THEN color.confidence
    ELSE existing.confidence

\* A merge that takes over the hex of the colour with the higher count.
MergeHexHigherCount(existing, color) ==
  IF CountOr1(color) > CountOr1(existing) THEN color.hex ELSE existing.hex

\* The hex of a cluster after a merge: the representative's own.
MergeHex(existing, color) == existing.hex

\* The body of `if (dE < threshold) { ... }`
MergeInto(existing, color) ==
  [existing EXCEPT !.hex = MergeHex(existing, color),
                   !.count = MergeCount(existing, color),
                   !.sources = MergeSources(existing, color),
                   !.confidence = MergeConfidence(existing, color)]

\* The inner loop's test for one existing representative: it has a parsable
\* hex and dE < threshold.
Similar(lab, existing, threshold) ==
  Bind(parseColor(existing.hex),
       LAMBDA existingRgb :
         /\ ~existingRgb.null
         /\ DeltaLt(deltaE2000(lab, rgbToLab(existingRgb)), threshold))

\* An inner loop that never merges.
PushAlways(unique, color, hits) == Append(unique, color)

\* The inner loop: merge into the first similar representative, or push.
MergeOrPush(unique, color, hits) ==
  IF hits = {} THEN Append(unique, color)
  ELSE [unique EXCEPT ![CHOOSE k \in hits : \A j \in hits : k <= j] = MergeInto(@, color)]

FindSimilar(unique, color, lab, threshold) ==
  Bind({k \in 1..Len(unique) : Similar(lab, unique[k], threshold)},
       LAMBDA hits : MergeOrPush(unique, color, hits))

\* One iteration of the outer loop of deduplicateColors, after !color.hex
WithRgb(unique, color, rgb, threshold) ==
  IF rgb.null THEN unique
  ELSE Bind(rgbToLab(rgb), LAMBDA lab : FindSimilar(unique, color, lab, threshold))

\* One iteration of the outer loop of deduplicateColors
DedupStep(unique, color, threshold) ==
  IF color.hex = <<>> \/ color.hex = NullStr THEN unique
  ELSE Bind(parseColor(color.hex), LAMBDA rgb : WithRgb(unique, color, rgb, threshold))

\* deduplicateColors(colors, threshold)
RECURSIVE deduplicateColors(_, _)
deduplicateColors(colors, threshold) ==
  IF colors = <<>> THEN <<>>
  ELSE Bind(deduplicateColors(SubSeq(colors, 1, Len(colors) - 1), threshold),
            LAMBDA unique : DedupStep(unique, colors[Len(colors)], threshold))

(***************************************************************************)
(* confidence.js                                                           *)
(***************************************************************************)

\* CONTEXT_SCORES
CONTEXT_SCORES ==
  { <<<<"l", "o", "g", "o">>, 5>>, <<<<"b", "r", "a", "n", "d">>, 5>>, <<<<"p", "r", "i", "m", "a", "r", "y">>, 4>>, <<<<"c", "t", "a">>, 4>>,
    <<<<"h", "e", "r", "o">>, 3>>, <<<<"b", "u", "t", "t", "o", "n">>, 3>>, <<<<"b", "t", "n", "-", "p", "r", "i", "m", "a", "r", "y">>, 4>>,
    <<<<"b", "t", "n", "-", "s", "e", "c", "o", "n", "d", "a", "r", "y">>, 3>>, <<<<"l", "i", "n", "k">>, 2>>, <<<<"h", "e", "a", "d", "e", "r">>, 2>>, <<<<"n", "a", "v">>, 2>>,
    <<<<"n", "a", "v", "i", "g", "a", "t", "i", "o", "n">>, 2>>, <<<<"m", "e", "n", "u">>, 2>>, <<<<"s", "i", "d", "e", "b", "a", "r">>, 2>>, <<<<"f", "o", "o", "t", "e", "r">>, 1>>,
    <<<<"c", "a", "r", "d">>, 1>>, <<<<"c", "o", "n", "t", "a", "i", "n", "e", "r">>, 1>>, <<<<"w", "r", "a", "p", "p", "e", "r">>, 0>>, <<<<"s", "e", "c", "t", "i", "o", "n">>, 0>> }

\* CONFIDENCE_THRESHOLDS
HIGH == 20
MEDIUM == 5

\* A scoreToConfidence whose thresholds are inclusive.
scoreToConfidenceFrom(score) ==
  IF score >= HIGH THEN "high" ELSE IF score >= MEDIUM THEN "medium" ELSE "low"

\* scoreToConfidence(score)
scoreToConfidence(score) ==
  IF score > HIGH THEN "high"
  ELSE IF score > MEDIUM THEN "medium"
  ELSE "low"

\* s.includes(sub)
includes(s, sub) ==
  \E i \in 0..(Len(s) - Len(sub)) : Slice(s, i + 1, i + Len(sub)) = sub

\* classes.join(' ')
RECURSIVE join(_)
join(classes) ==
  IF classes = <<>> THEN <<>>
  ELSE IF Len(classes) = 1 THEN classes[1]
  ELSE join(SubSeq(classes, 1, Len(classes) - 1)) \o <<" ">> \o classes[Len(classes)]

\* The loop over Object.entries(CONTEXT_SCORES): the scores of the contexts
\* the string includes, added up.
RECURSIVE SumScores(_)
SumScores(entries) ==
  IF entries = {} THEN 0
  ELSE LET x == CHOOSE y \in entries : TRUE
       IN x[2] + SumScores(entries \ {x})

ContextSum(str) == SumScores({x \in CONTEXT_SCORES : includes(str, x[1])})

\* calculateContextScore(elementInfo), isVisible true as processColors passes it
calculateContextScore(elementInfo) ==
  LET tagLower == toLowerCase(elementInfo.tagName)
      role == elementInfo.role
  IN (IF tagLower = <<"b", "u", "t", "t", "o", "n">> THEN 3 ELSE 0)
     + (IF tagLower = <<"a">> THEN 2 ELSE 0)
     + (IF tagLower = <<"n", "a", "v">> THEN 2 ELSE 0)
     + (IF tagLower = <<"h", "e", "a", "d", "e", "r">> THEN 2 ELSE 0)
     + (IF tagLower = <<"h", "1">> \/ tagLower = <<"h", "2">> THEN 1 ELSE 0)
     + (IF role = <<"b", "u", "t", "t", "o", "n">> THEN 3 ELSE 0)
     + (IF role = <<"l", "i", "n", "k">> THEN 2 ELSE 0)
     + (IF role = <<"n", "a", "v", "i", "g", "a", "t", "i", "o", "n">> THEN 2 ELSE 0)
     + ContextSum(toLowerCase(join(elementInfo.classes)))
     + ContextSum(toLowerCase(elementInfo.id))

\* coloredButtonBoost(isColoredButton)
coloredButtonBoost(isColoredButton) == IF isColoredButton THEN 25 ELSE 0

(***************************************************************************)
(* extractors/colors.js: the samples of the page and processColors         *)
(***************************************************************************)

\* The object the page function of extractColors pushes for one computed
\* colour value of one element.
Sample(value, property, el) ==
  [value |-> value, property |-> property, tagName |-> el.tagName,
   classes |-> el.classes, id |-> el.id, role |-> el.role,
   isButton |-> \/ el.tagName = <<"B", "U", "T", "T", "O", "N">>
                \/ el.role = <<"b", "u", "t", "t", "o", "n">>
                \/ \E k \in 1..Len(el.classes) :
                     includes(el.classes[k], <<"b", "t", "n">>) \/ includes(el.classes[k], <<"b", "u", "t", "t", "o", "n">>)]

\* set.add(x) on a Set kept in insertion order
SetAdd(set, x) == IF x \in Range(set) THEN set ELSE Append(set, x)

\* A boost for every button-like element, whatever its colour.
IsAnyButton(item) == item.isButton

\* isColoredButton of processColors
IsColoredButton(item) ==
  /\ item.isButton
  /\ ~parseColor(item.value).null
  /\ ~isWhite(item.value, 95)
  /\ ~isBlack(item.value, 5)
  /\ ~isTransparent(item.value)

\* contextScore + boost of one sample
TotalScore(item) ==
  calculateContextScore(item) + coloredButtonBoost(IsColoredButton(item))

\* Math.max(existing.score, totalScore)
MathMax(a, b) == IF a > b THEN a ELSE b

\* An aggregation that does not count a repeated hex.
CountSame(n) == n

\* existing.count++
CountInc(n) == n + 1

\* The aggregation of one sample of hex `hex` and score `totalScore`
Aggregate(colorMap, item, hex, totalScore) ==
  IF \E k \in 1..Len(colorMap) : colorMap[k].hex = hex
    THEN [k \in 1..Len(colorMap) |->
            IF colorMap[k].hex = hex
              THEN [colorMap[k] EXCEPT
                      !.count = CountInc(@),
                      !.score = MathMax(@, totalScore),
                      !.sources = SetAdd(@, item.property),
                      !.elements = IF item.tagName # <<>>
                                     THEN SetAdd(@, item.tagName) ELSE @]
              ELSE colorMap[k]]
  ELSE Append(colorMap,
              [hex |-> hex, count |-> 1, score |-> totalScore,
               sources |-> <<item.property>>, elements |-> <<item.tagName>>])

\* One iteration of the loop of processColors, once hex is computed
WithHex(colorMap, item, hex) ==
  IF hex = NullStr THEN colorMap
  ELSE IF isTransparent(item.value) THEN colorMap
  ELSE Bind(TotalScore(item), LAMBDA totalScore : Aggregate(colorMap, item, hex, totalScore))

\* One iteration of the loop of processColors over rawColors; colorMap is
\* the Map's entries in insertion order.
ProcessStep(colorMap, item) ==
  Bind(normalizeToHex(item.value), LAMBDA hex : WithHex(colorMap, item, hex))

RECURSIVE ProcessLoop(_)
ProcessLoop(rawColors) ==
  IF rawColors = <<>> THEN <<>>
  ELSE Bind(ProcessLoop(SubSeq(rawColors, 1, Len(rawColors) - 1)),
            LAMBDA colorMap : ProcessStep(colorMap, rawColors[Len(rawColors)]))

\* Array.from(colorMap.values()).map(color => ({ ... }))
ToArray(colorMap) ==
  [k \in 1..Len(colorMap) |->
     [hex |-> colorMap[k].hex,
      count |-> Some(colorMap[k].count),
      score |-> Some(colorMap[k].score),
      confidence |-> scoreToConfidence(colorMap[k].score),
      sources |-> Some(colorMap[k].sources),
      elements |-> Some(colorMap[k].elements)]]

\* processColors(rawColors)
processColors(rawColors) == Bind(ProcessLoop(rawColors), ToArray)

(***************************************************************************)
(* The colour utilities applied to one string                              *)
(***************************************************************************)

MaxHexBody == 6

\* Two lower-case hex digits, an upper-case one and a letter that is no hex
\* digit.
HexAlphabet == {"0", "a", "F", "g"}

StringsUpTo(alphabet, n) == UNION {[1..k -> alphabet] : k \in 0..n}

FixedInputs ==
  { <<"#", "3", "B", "8", "2", "F", "6", "8", "0">>, <<"#", "0", "a", "F", "0", "a", "F", "g", "0">>, <<"#", "0", "x", "1", "2", "3", "4">>, <<" ", " ", "#", "F", "F", "0", "0", "0", "0", " ">>, <<"#", "-", "1", "-", "1", "-", "1">>,
    <<"r", "g", "b", "(", "2", "5", "5", ",", " ", "0", ",", " ", "0", ")">>, <<"r", "g", "b", "(", "3", "0", "0", ",", " ", "0", ",", " ", "0", ")">>, <<"r", "g", "b", "a", "(", "3", "7", ",", " ", "9", "9", ",", " ", "2", "3", "5", ",", " ", "0", ".", "5", ")">>,
    <<"r", "g", "b", "a", "(", "0", ",", " ", "0", ",", " ", "0", ",", " ", "0", ")">>, <<"R", "G", "B", "(", " ", "1", " ", ",", "2", " ", ",", " ", "3", " ", ")">>, <<"h", "s", "l", "(", "0", ",", " ", "1", "0", "0", "%", ",", " ", "5", "0", "%", ")">>,
    <<"h", "s", "l", "(", "2", "1", "7", ",", " ", "9", "1", "%", ",", " ", "6", "0", "%", ")">>, <<"h", "s", "l", "(", "0", ",", " ", ".", "%", ",", " ", "5", "0", "%", ")">>, <<"h", "s", "l", "a", "(", "1", "2", "0", ",", " ", "1", "0", "0", "%", ",", " ", "5", "0", "%", ",", " ", "0", ".", "3", ")">>,
    <<"t", "r", "a", "n", "s", "p", "a", "r", "e", "n", "t">>, <<"r", "e", "d">>, <<"c", "o", "l", "o", "r", "(", "s", "r", "g", "b", " ", "1", " ", "0", " ", "0", ")">> }

ColorInputs ==
  StringsUpTo(HexAlphabet, MaxHexBody)
    \cup {<<"#">> \o b : b \in StringsUpTo(HexAlphabet, MaxHexBody)}
    \cup FixedInputs

ColorIdle ==
  /\ cIn = <<>>
  /\ cOut = NullStr
  /\ cTrip = NullStr
  /\ cPc = "idle"

\* hex = normalizeToHex(value)
Normalize ==
  /\ cPc = "input"
  /\ cOut' = normalizeToHex(cIn)
  /\ cPc' = "normalized"
  /\ UNCHANGED <<cIn, cTrip, orchVars, dedupVars, procVars, callVars>>

\* normalizeToHex(formatRgb(hexToRgb(h)))
RoundTrip ==
  /\ cPc = "normalized"
  /\ cTrip' = normalizeToHex(formatRgb(hexToRgb(cIn)))
  /\ cPc' = "tripped"
  /\ UNCHANGED <<cIn, cOut, orchVars, dedupVars, procVars, callVars>>

(***************************************************************************)
(* deduplicateColors applied to a list, and to its own output              *)
(***************************************************************************)

MaxColors == 3

\* A chain under the default threshold: the first is within 15 of the
\* second, the second of the third, the first not of the third.
Blue1 == <<"#", "3", "B", "8", "2", "F", "6">>
Blue2 == <<"#", "2", "5", "6", "3", "E", "B">>
Blue3 == <<"#", "1", "D", "4", "E", "D", "8">>

Bare ==
  [count |-> Absent, score |-> Absent, confidence |-> "undefined",
   sources |-> AbsentSeq, elements |-> AbsentSeq]
Once ==
  [count |-> Some(1), score |-> Some(2), confidence |-> "low",
   sources |-> Some(<<"color">>), elements |-> Some(<<<<"A">>>>)]
Twice ==
  [count |-> Some(2), score |-> Some(36), confidence |-> "high",
   sources |-> Some(<<"backgroundColor">>), elements |-> Some(<<<<"B", "U", "T", "T", "O", "N">>>>)]
Zero ==
  [count |-> Some(0), score |-> Some(6), confidence |-> "medium",
   sources |-> Some(<<"color", "backgroundColor">>), elements |-> Some(<<<<"A">>>>)]

ColorRec(hex, rest) == [hex |-> hex] @@ rest

DedupPool ==
  { ColorRec(Blue1, Bare), ColorRec(Blue1, Once), ColorRec(Blue1, Twice),
    ColorRec(Blue1, Zero), ColorRec(Blue2, Once), ColorRec(Blue2, Twice),
    ColorRec(Blue3, Bare), ColorRec(Blue3, Once),
    ColorRec(<<"z", "z", "z">>, Once), ColorRec(<<>>, Once), ColorRec(<<"#", "G", "G", "G", "G", "G", "G">>, Once) }

\* The threshold extractColors passes, and a tighter one.
Thresholds == {15, 8}

DedupInputs == UNION {[1..k -> DedupPool] : k \in 0..MaxColors}

DedupIdle ==
  /\ dIn = <<>>
  /\ dThr = 0
  /\ dOut1 = <<>>
  /\ dOut2 = <<>>
  /\ dPc = "idle"

\* deduplicateColors(colors, threshold)
RunDedup ==
  /\ dPc = "input"
  /\ dOut1' = deduplicateColors(dIn, dThr)
  /\ dPc' = "once"
  /\ UNCHANGED <<dIn, dThr, dOut2, orchVars, colorVars, procVars, callVars>>

\* deduplicateColors on the list the first call returned
RunDedupAgain ==
  /\ dPc = "once"
  /\ dOut2' = deduplicateColors(dOut1, dThr)
  /\ dPc' = "twice"
  /\ UNCHANGED <<dIn, dThr, dOut1, orchVars, colorVars, procVars, callVars>>

(***************************************************************************)
(* processColors applied to the samples of a page                          *)
(***************************************************************************)

MaxSamples == 3

PrimaryButton == [tagName |-> <<"B", "U", "T", "T", "O", "N">>, classes |-> <<<<"b", "t", "n", "-", "p", "r", "i", "m", "a", "r", "y">>>>, id |-> <<>>, role |-> <<>>]
NavLink       == [tagName |-> <<"A">>, classes |-> <<<<"n", "a", "v", "-", "l", "i", "n", "k">>, <<"M", "e", "n", "u">>>>, id |-> <<>>, role |-> <<>>]
LogoDiv       == [tagName |-> <<"D", "I", "V">>, classes |-> <<>>, id |-> <<"L", "o", "g", "o">>, role |-> <<>>]
CardButton    == [tagName |-> <<"D", "I", "V">>, classes |-> <<<<"c", "a", "r", "d">>>>, id |-> <<>>, role |-> <<"b", "u", "t", "t", "o", "n">>]

SamplePool ==
  { Sample(<<"r", "g", "b", "(", "2", "5", "5", ",", " ", "0", ",", " ", "0", ")">>, "backgroundColor", PrimaryButton),
    Sample(<<"r", "g", "b", "a", "(", "2", "5", "5", ",", " ", "0", ",", " ", "0", ",", " ", "0", ".", "5", ")">>, "color", NavLink),
    Sample(<<"r", "g", "b", "(", "5", "9", ",", " ", "1", "3", "0", ",", " ", "2", "4", "6", ")">>, "color", NavLink),
    Sample(<<"r", "g", "b", "(", "2", "5", "5", ",", " ", "2", "5", "5", ",", " ", "2", "5", "5", ")">>, "backgroundColor", PrimaryButton),
    Sample(<<"r", "g", "b", "(", "1", "3", ",", " ", "1", "3", ",", " ", "1", "3", ")">>, "color", CardButton),
    Sample(<<"r", "g", "b", "(", "2", "5", "4", ",", " ", "1", ",", " ", "1", ")">>, "backgroundColor", CardButton),
    Sample(<<"c", "o", "l", "o", "r", "(", "s", "r", "g", "b", " ", "1", " ", "0", " ", "0", ")">>, "color", LogoDiv),
    Sample(<<"r", "g", "b", "(", "1", "7", ",", " ", "1", "7", ",", " ", "1", "7", ")">>, "color", PrimaryButton),
    Sample(<<"r", "g", "b", "a", "(", "0", ",", " ", "0", ",", " ", "0", ",", " ", "0", ")">>, "borderColor", PrimaryButton) }

\* The page function keeps one sample per distinct value string.
ProcInputs ==
  {s \in UNION {[1..k -> SamplePool] : k \in 0..MaxSamples} :
     \A i, j \in 1..Len(s) : s[i].value = s[j].value => i = j}

ProcIdle ==
  /\ pIn = <<>>
  /\ pOut = <<>>
  /\ pPc = "idle"

\* processedColors = processColors(rawColors)
Process ==
  /\ pPc = "input"
  /\ pOut' = processColors(pIn)
  /\ pPc' = "done"
  /\ UNCHANGED <<pIn, orchVars, colorVars, dedupVars, callVars>>

(***************************************************************************)
(* Orchestrator: runAllExtractors                                          *)
(***************************************************************************)

\* The array literal handed to Promise.all, in order.
ExtractorOrder ==
  <<"colors", "typography", "spacing", "borders",
    "shadows", "components", "frameworks", "breakpoints">>

Extractors == {ExtractorOrder[i] : i \in 1..Len(ExtractorOrder)}

\* Position of extractor e in the array literal.
IndexOf(e) == CHOOSE i \in 1..Len(ExtractorOrder) : ExtractorOrder[i] = e

\* Number of awaited page.evaluate calls each extractor makes, in sequence.
NCalls(e) ==
  CASE e = "colors"      -> 2   \* rawColors, extractCssVariables
    [] e = "typography"  -> 2   \* rawTypography, extractFontSources
    [] e = "spacing"     -> 1
    [] e = "borders"     -> 1
    [] e = "shadows"     -> 1
    [] e = "components"  -> 6   \* buttons 2, inputs 2, links 1, badges 1
    [] e = "frameworks"  -> 1
    [] e = "breakpoints" -> 1

Undefined == <<"undefined">>
NotThrown == <<"none">>
Unset     == <<"unset">>

\* The message every Error of the model carries.
FailureMessage == "evaluate failed"

\* What a snapshot call, or the processing after it, can throw: an Error
\* object (any value with a message behaves alike in the handler), or null /
\* undefined, on which the handler's property read itself throws.
ThrownValues == {<<"Error", FailureMessage>>, <<"nullish">>}

\* err.message
MessageOf(v) == IF v[1] = "Error" THEN <<"string", v[2]>> ELSE Undefined

\* err => ({ error: err.message }): the handler throws a TypeError when err
\* is null or undefined, and otherwise returns the stub.
CatchHandlerThrows(v) == v[1] = "nullish"
CatchHandler(v) == <<"stub", MessageOf(v)>>

\* The value the wrapped promise of e (extractX(page).catch(...)) fulfils with.
OkValue(e) == <<"ok", e>>

\* A Promise.all that stores values in the order the elements complete.
SlotByCompletion(e, rem) == Len(ExtractorOrder) - rem + 1

\* Promise.all stores the value of the element at array position i in slot i.
SlotOf(e, rem) == IndexOf(e)

\* obj.name for a wrapped value: a category result has its own fields, the
\* stub has only `error`.
Prop(v, name) ==
  IF v[1] = "ok" THEN <<"field", v[2], name>>
  ELSE IF v[1] = "stub" /\ name = "error" THEN v[2]
  ELSE Undefined

\* The object literal runAllExtractors returns (without _meta).
BuildResult(vals) ==
  [ colors         |-> vals[1],
    typography     |-> vals[2],
    spacing        |-> vals[3],
    radii          |-> Prop(vals[4], "radii"),
    borders        |-> Prop(vals[4], "borders"),
    shadows        |-> vals[5],
    breakpoints    |-> vals[8],
    components     |-> vals[6],
    frameworks     |-> Prop(vals[7], "frameworks"),
    iconSystems    |-> Prop(vals[7], "iconSystems"),
    cssMethodology |-> Prop(vals[7], "cssMethodology") ]

ResultFields ==
  {"colors", "typography", "spacing", "radii", "borders", "shadows",
   "breakpoints", "components", "frameworks", "iconSystems", "cssMethodology"}

NoResult == [f \in ResultFields |-> Unset]

\* The field(s) of the returned object that hold extractor e's output.
FieldsOf(e) ==
  CASE e = "borders"    -> {"radii", "borders"}
    [] e = "frameworks" -> {"frameworks", "iconSystems", "cssMethodology"}
    [] OTHER            -> {e}

OrchIdle ==
  /\ pc = "idle"
  /\ extState = [e \in Extractors |-> "idle"]
  /\ extPc = [e \in Extractors |-> 0]
  /\ extThrown = [e \in Extractors |-> NotThrown]
  /\ values = [i \in 1..Len(ExtractorOrder) |-> Unset]
  /\ remaining = Len(ExtractorOrder)
  /\ result = NoResult
  /\ thrown = NotThrown

OrchInit == OrchIdle /\ ColorIdle /\ DedupIdle /\ ProcIdle /\ CallIdle

\* runAllExtractors is called: the eight extractors are called in array
\* order, each runs synchronously to its first await, and the orchestrator
\* awaits Promise.all.
Start ==
  /\ pc = "idle"
  /\ pc' = "awaiting"
  /\ extState' = [e \in Extractors |-> "pending"]
  /\ extPc' = [e \in Extractors |-> 1]
  /\ UNCHANGED <<extThrown, values, remaining, result, thrown>>
  /\ UNCHANGED <<colorVars, dedupVars, procVars, callVars>>

\* The wrapped promise of e fulfils with v: Promise.all records it and, when
\* it was the last element, fulfils; the orchestrator then builds its result.
ElementFulfils(e, v) ==
  LET vals == [values EXCEPT ![SlotOf(e, remaining)] = v] IN
  /\ values' = vals
  /\ remaining' = remaining - 1
  /\ IF remaining = 1 /\ pc = "awaiting"
       THEN pc' = "returned" /\ result' = BuildResult(vals)
       ELSE UNCHANGED <<pc, result>>
  /\ UNCHANGED thrown

\* The wrapped promise of e rejects with reason r: Promise.all rejects at
\* once when still pending, and the await in runAllExtractors throws.
ElementRejects(e, r) ==
  /\ IF pc = "awaiting"
       THEN pc' = "rejected" /\ thrown' = r
       ELSE UNCHANGED <<pc, thrown>>
  /\ UNCHANGED <<values, remaining, result>>

\* The snapshot answers the call extractor e awaits: e goes on to its next
\* call, or returns its category result.
RespondOk(e) ==
  /\ extState[e] = "pending"
  /\ UNCHANGED <<colorVars, dedupVars, procVars, callVars>>
  /\ IF extPc[e] < NCalls(e)
       THEN /\ extPc' = [extPc EXCEPT ![e] = @ + 1]
            /\ UNCHANGED <<pc, extState, extThrown, values, remaining, result, thrown>>
       ELSE /\ extPc' = [extPc EXCEPT ![e] = 0]
            /\ extState' = [extState EXCEPT ![e] = "fulfilled"]
            /\ UNCHANGED extThrown
            /\ ElementFulfils(e, OkValue(e))

\* The call extractor e awaits (or the processing that follows it) throws v:
\* e rejects with v and the catch handler of its wrapped promise runs.
RespondFail(e, v) ==
  /\ extState[e] = "pending"
  /\ UNCHANGED <<colorVars, dedupVars, procVars, callVars>>
  /\ extPc' = [extPc EXCEPT ![e] = 0]
  /\ extState' = [extState EXCEPT ![e] = "rejected"]
  /\ extThrown' = [extThrown EXCEPT ![e] = v]
  /\ IF CatchHandlerThrows(v)
       THEN ElementRejects(e, <<"TypeError", e>>)
       ELSE ElementFulfils(e, CatchHandler(v))

OrchNext ==
  \/ Start
  \/ \E e \in Extractors : RespondOk(e)
  \/ \E e \in Extractors : \E v \in ThrownValues : RespondFail(e, v)

SpecOrch == OrchInit /\ [][OrchNext]_vars

Settled(e) == extState[e] \in {"fulfilled", "rejected"}
AllSettled == \A e \in Extractors : Settled(e)

\* What the wrapped promise of e settled with, from e's own outcome alone.
OutcomeOf(e) ==
  IF extState[e] = "fulfilled" THEN OkValue(e) ELSE CatchHandler(extThrown[e])

(***************************************************************************)
(* extractors/colors.js: extractColors over the elements of a document     *)
(***************************************************************************)

COLOR_PROPERTIES ==
  <<"color", "backgroundColor", "borderColor", "borderTopColor",
    "borderRightColor", "borderBottomColor", "borderLeftColor",
    "outlineColor", "fill", "stroke">>

\* style.display === 'none' || style.visibility === 'hidden' || style.opacity === '0'
IsHidden(el) ==
  el.display = "none" \/ el.visibility = "hidden" \/ el.opacity = "0"

\* style.getPropertyValue(prop ...): the empty string where the element's
\* computed style holds no value for prop.
GetPropertyValue(el, prop) ==
  IF prop \in DOMAIN el.style THEN el.style[prop] ELSE <<>>

\* !value || value === 'none' || value === 'transparent' || value === 'inherit'
IsSkippedValue(value) ==
  \/ value = <<>>
  \/ value = <<"n", "o", "n", "e">>
  \/ value = <<"t", "r", "a", "n", "s", "p", "a", "r", "e", "n", "t">>
  \/ value = <<"i", "n", "h", "e", "r", "i", "t">>

\* The body of the loop over colorProps for one property; page is
\* [colors, seen], seen being keyed on the value string alone.
PropStep(page, el, prop) ==
  Bind(GetPropertyValue(el, prop),
       LAMBDA value :
         IF IsSkippedValue(value) THEN page
         ELSE IF value \in page.seen THEN page
         ELSE [colors |-> Append(page.colors, Sample(value, prop, el)),
               seen |-> page.seen \cup {value}])

\* for (const prop of colorProps): the first n properties
RECURSIVE PropLoop(_, _, _)
PropLoop(page, el, n) ==
  IF n = 0 THEN page
  ELSE Bind(PropLoop(page, el, n - 1),
            LAMBDA before : PropStep(before, el, COLOR_PROPERTIES[n]))

\* The body of the loop over the elements of the document
ElementStep(page, el) ==
  IF IsHidden(el) THEN page ELSE PropLoop(page, el, Len(COLOR_PROPERTIES))

\* for (const el of elements), in document order
RECURSIVE ElementLoop(_)
ElementLoop(elements) ==
  IF elements = <<>> THEN [colors |-> <<>>, seen |-> {}]
  ELSE Bind(ElementLoop(SubSeq(elements, 1, Len(elements) - 1)),
            LAMBDA page : ElementStep(page, elements[Len(elements)]))

\* rawColors: what the page function of extractColors returns
RawColors(elements) == ElementLoop(elements).colors

\* The comparator of categorizeColors puts b before a: higher score, then
\* higher count.
SortsBefore(b, a) ==
  IF b.score.v # a.score.v THEN b.score.v > a.score.v ELSE b.count.v > a.count.v

\* Array.prototype.sort is stable: c goes behind every element it does not
\* sort before.
SortInsert(sorted, c) ==
  Bind(Cardinality({k \in 1..Len(sorted) : ~SortsBefore(c, sorted[k])}),
       LAMBDA n : SubSeq(sorted, 1, n) \o <<c>> \o SubSeq(sorted, n + 1, Len(sorted)))

\* [...colors].sort(...)
RECURSIVE SortByScore(_)
SortByScore(colors) ==
  IF colors = <<>> THEN <<>>
  ELSE Bind(SortByScore(SubSeq(colors, 1, Len(colors) - 1)),
            LAMBDA sorted : SortInsert(sorted, colors[Len(colors)]))

IsSignificant(c) == c.confidence = "high" \/ c.confidence = "medium"

IsNotLow(c) == c.confidence # "low"

\* sorted.filter(c => c.confidence === 'high' || c.confidence === 'medium')
Significant(colors) == SelectSeq(SortByScore(colors), IsSignificant)

\* { ...formatColorToken(c.hex, c.confidence), count: c.count, sources: c.sources }
\* formatColorToken returns null for a hex that does not parse; of the
\* token's fields, hex and confidence are kept.
PaletteToken(c) ==
  IF parseColor(c.hex).null
    THEN [hex |-> <<"u", "n", "d", "e", "f", "i", "n", "e", "d">>, confidence |-> "undefined",
          count |-> c.count, sources |-> c.sources]
    ELSE [hex |-> toUpperCase(c.hex), confidence |-> c.confidence,
          count |-> c.count, sources |-> c.sources]

\* result.palette of categorizeColors
PaletteOf(significant) ==
  Bind(SelectSeq(significant, IsNotLow),
       LAMBDA kept :
         [k \in 1..(IF Len(kept) < 20 THEN Len(kept) ELSE 20) |-> PaletteToken(kept[k])])

\* The palette extractColors returns for a document without CSS custom
\* properties: processColors, deduplicateColors with threshold 15,
\* categorizeColors.
ExtractPalette(elements) ==
  Bind(RawColors(elements),
       LAMBDA rawColors :
         Bind(processColors(rawColors),
              LAMBDA processedColors :
                Bind(deduplicateColors(processedColors, 15),
                     LAMBDA dedupedColors : PaletteOf(Significant(dedupedColors)))))

MaxElements == 3

Shown == [display |-> "block", visibility |-> "visible", opacity |-> "1"]

BlueValue == <<"r", "g", "b", "(", "5", "9", ",", " ", "1", "3", "0", ",", " ", "2", "4", "6", ")">>

\* A call-to-action button with a blue background and white text
CtaButton ==
  [tagName |-> <<"B", "U", "T", "T", "O", "N">>, classes |-> <<<<"c", "t", "a">>>>, id |-> <<>>, role |-> <<>>,
   style |-> [p \in {"color", "backgroundColor"} |->
                IF p = "color" THEN <<"r", "g", "b", "(", "2", "5", "5", ",", " ", "2", "5", "5", ",", " ", "2", "5", "5", ")">> ELSE BlueValue]] @@ Shown

\* A navigation link whose text has the same blue
NavLinkEl ==
  [tagName |-> <<"A">>, classes |-> <<<<"n", "a", "v", "-", "l", "i", "n", "k">>, <<"M", "e", "n", "u">>>>, id |-> <<>>, role |-> <<>>,
   style |-> [p \in {"color"} |-> BlueValue]] @@ Shown

\* A button of the same blue that is not displayed
HiddenCta ==
  [tagName |-> <<"B", "U", "T", "T", "O", "N">>, classes |-> <<<<"c", "t", "a">>>>, id |-> <<>>, role |-> <<>>,
   style |-> [p \in {"backgroundColor"} |-> BlueValue],
   display |-> "none", visibility |-> "visible", opacity |-> "1"]

\* Body text: near black on a transparent background
PlainDiv ==
  [tagName |-> <<"D", "I", "V">>, classes |-> <<>>, id |-> <<>>, role |-> <<>>,
   style |-> [p \in {"color", "backgroundColor"} |->
                IF p = "color" THEN <<"r", "g", "b", "(", "1", "3", ",", " ", "1", "3", ",", " ", "1", "3", ")">> ELSE <<"r", "g", "b", "a", "(", "0", ",", " ", "0", ",", " ", "0", ",", " ", "0", ")">>]] @@ Shown

\* A red hero header
HeroHeader ==
  [tagName |-> <<"H", "E", "A", "D", "E", "R">>, classes |-> <<<<"h", "e", "r", "o">>>>, id |-> <<>>, role |-> <<>>,
   style |-> [p \in {"backgroundColor", "borderColor"} |-> <<"r", "g", "b", "(", "2", "5", "5", ",", " ", "0", ",", " ", "0", ")">>]] @@ Shown

ElementPool == {CtaButton, NavLinkEl, HiddenCta, PlainDiv, HeroHeader}

\* Documents: up to MaxElements distinct elements, in document order
Documents ==
  {d \in UNION {[1..k -> ElementPool] : k \in 0..MaxElements} :
     \A i, j \in 1..Len(d) : d[i] = d[j] => i = j}

ExtractInit ==
  /\ callArg \in {[fn |-> "extractColors", elements |-> d] : d \in Documents}
  /\ callRet = <<>>
  /\ callPc = "called"
  /\ OrchIdle /\ ColorIdle /\ DedupIdle /\ ProcIdle

\* extractColors(page)
ExtractColors ==
  /\ callPc = "called"
  /\ callArg.fn = "extractColors"
  /\ callRet' = ExtractPalette(callArg.elements)
  /\ callPc' = "returned"
  /\ UNCHANGED <<callArg, orchVars, colorVars, dedupVars, procVars>>

ExtractNext == ExtractColors

SpecExtract == ExtractInit /\ [][ExtractNext]_vars

(***************************************************************************)
(* JavaScript numbers between 0 and 2: IEEE-754 doubles as bit strings.    *)
(* A double is zero (no bits) or 53 significant bits, the first of them 1  *)
(* and of weight 2^-lead.                                                  *)
(***************************************************************************)

SignificandBits == 53

DZero == [lead |-> 0, bits |-> <<>>]

\* The bit of weight 2^-j of x
BitAt(x, j) ==
  IF j >= x.lead /\ j < x.lead + Len(x.bits) THEN x.bits[j - x.lead + 1] ELSE 0

\* a + b + cin for bit strings of one length, most significant bit first:
\* [carry, bits]. The string is halved so that the carry passes from the
\* right half into the left.
RECURSIVE AddBits(_, _, _)
AddBits(a, b, cin) ==
  IF a = <<>> THEN [carry |-> cin, bits |-> <<>>]
  ELSE IF Len(a) = 1
    THEN [carry |-> (a[1] + b[1] + cin) \div 2, bits |-> <<(a[1] + b[1] + cin) % 2>>]
  ELSE Bind(AddBits(SubSeq(a, Len(a) \div 2 + 1, Len(a)),
                    SubSeq(b, Len(a) \div 2 + 1, Len(a)), cin),
            LAMBDA right :
              Bind(AddBits(SubSeq(a, 1, Len(a) \div 2),
                           SubSeq(b, 1, Len(a) \div 2), right.carry),
                   LAMBDA left : [carry |-> left.carry, bits |-> left.bits \o right.bits]))

\* bits + 1 at the last place: [carry, bits]
Increment(bits) == AddBits(bits, [k \in 1..Len(bits) |-> 0], 1)

\* Round to nearest, ties to even: sig are the 53 significant bits, rest
\* the bits behind them.
RoundUp(sig, rest) ==
  /\ rest # <<>>
  /\ rest[1] = 1
  /\ \/ \E k \in 2..Len(rest) : rest[k] = 1
     \/ sig[Len(sig)] = 1

RoundSignificand(lead, sig, rest) ==
  IF ~RoundUp(sig, rest) THEN [lead |-> lead, bits |-> sig]
  ELSE Bind(Increment(sig),
            LAMBDA t : IF t.carry = 1
                         THEN [lead |-> lead - 1,
                               bits |-> <<1>> \o SubSeq(t.bits, 1, Len(t.bits) - 1)]
                         ELSE [lead |-> lead, bits |-> t.bits])

\* The double nearest to an exact bit string whose first bit has weight
\* 2^-lead
RoundBits(lead, bits) ==
  IF \A k \in 1..Len(bits) : bits[k] = 0 THEN DZero
  ELSE Bind(CHOOSE z \in 1..Len(bits) : bits[z] = 1 /\ \A k \in 1..(z - 1) : bits[k] = 0,
            LAMBDA z :
              RoundSignificand(
                lead + z - 1,
                [k \in 1..SignificandBits |->
                   IF z + k - 1 <= Len(bits) THEN bits[z + k - 1] ELSE 0],
                SubSeq(bits, z + SignificandBits, Len(bits))))

\* Long division: the next n bits of a quotient by total whose remainder,
\* doubled, is r, and the doubled remainder behind them. The run is halved
\* so that the remainder passes from the left half into the right.
RECURSIVE DivBits(_, _, _)
DivBits(r, total, n) ==
  IF n = 0 THEN [bits |-> <<>>, r |-> r]
  ELSE IF n = 1
    THEN IF r >= total THEN [bits |-> <<1>>, r |-> 2 * (r - total)]
                       ELSE [bits |-> <<0>>, r |-> 2 * r]
  ELSE Bind(DivBits(r, total, n \div 2),
            LAMBDA left :
              Bind(DivBits(left.r, total, n - n \div 2),
                   LAMBDA right : [bits |-> left.bits \o right.bits, r |-> right.r]))

\* The number of zero bits h / total starts with, for 0 < h <= total
RECURSIVE LeadingZeros(_, _)
LeadingZeros(h, total) ==
  IF h >= total THEN 0 ELSE 1 + LeadingZeros(2 * h, total)

\* h / total for natural numbers h <= total, total > 0: the quotient's bits
\* up to one behind the significand, and a last bit for a remainder.
DDiv(h, total) ==
  IF h = 0 THEN DZero
  ELSE Bind(DivBits(h, total, LeadingZeros(h, total) + SignificandBits + 1),
            LAMBDA b : RoundBits(0, b.bits \o <<IF b.r = 0 THEN 0 ELSE 1>>))

\* The bits of x of weight 2^-lo .. 2^-hi
BitsBetween(x, lo, hi) == [k \in 1..(hi - lo + 1) |-> BitAt(x, lo + k - 1)]

Min2(a, b) == IF a < b THEN a ELSE b
Max2(a, b) == IF a > b THEN a ELSE b

\* x + y
DAdd(x, y) ==
  IF x.bits = <<>> THEN y
  ELSE IF y.bits = <<>> THEN x
  ELSE Bind(AddBits(BitsBetween(x, Min2(x.lead, y.lead) - 1,
                                Max2(x.lead, y.lead) + SignificandBits - 1),
                    BitsBetween(y, Min2(x.lead, y.lead) - 1,
                                Max2(x.lead, y.lead) + SignificandBits - 1), 0),
            LAMBDA t : RoundBits(Min2(x.lead, y.lead) - 1, t.bits))

\* x > y
DGt(x, y) ==
  IF x.bits = <<>> THEN FALSE
  ELSE IF y.bits = <<>> THEN TRUE
  ELSE IF x.lead # y.lead THEN x.lead < y.lead
  ELSE \E k \in 1..SignificandBits :
         /\ x.bits[k] > y.bits[k]
         /\ \A j \in 1..(k - 1) : x.bits[j] = y.bits[j]

(***************************************************************************)
(* utils/confidence.js: countToConfidence, mergeConfidence,                *)
(* calculateOverallConfidence, each called once                            *)
(***************************************************************************)

\* const { name = d } = options
Default(opt, d) == IF opt.def THEN opt.v ELSE d

\* A countToConfidence whose thresholds are exclusive.
countToConfidenceAbove(count, options) ==
  IF count > Default(options.highThreshold, 10) THEN "high"
  ELSE IF count > Default(options.mediumThreshold, 3) THEN "medium"
  ELSE "low"

\* countToConfidence(count, options)
countToConfidence(count, options) ==
  IF count >= Default(options.highThreshold, 10) THEN "high"
  ELSE IF count >= Default(options.mediumThreshold, 3) THEN "medium"
  ELSE "low"

\* A merge that keeps its first argument.
mergeConfidenceFirst(conf1, conf2) == conf1

\* mergeConfidence(conf1, conf2)
mergeConfidence(conf1, conf2) ==
  IF ConfidenceOrder(conf1) >= ConfidenceOrder(conf2) THEN conf1 ELSE conf2

\* highCount, mediumCount: the tokens of one confidence
CountConfidence(tokens, c) ==
  Cardinality({k \in 1..Len(tokens) : tokens[k].confidence = c})

\* if (highRatio > 0.5) ... if (highRatio + mediumRatio > 0.7) ...
OverallOf(highRatio, mediumRatio) ==
  IF DGt(highRatio, DDiv(1, 2)) THEN "high"
  ELSE IF DGt(DAdd(highRatio, mediumRatio), DDiv(7, 10)) THEN "medium"
  ELSE "low"

\* calculateOverallConfidence(tokens)
calculateOverallConfidence(tokens) ==
  IF Len(tokens) = 0 THEN "low"
  ELSE Bind(DDiv(CountConfidence(tokens, "high"), Len(tokens)),
            LAMBDA highRatio :
              Bind(DDiv(CountConfidence(tokens, "medium"), Len(tokens)),
                   LAMBDA mediumRatio : OverallOf(highRatio, mediumRatio)))

MaxScore == 26
MaxCount == 12
MaxThreshold == 11
MaxTokens == 20

Levels == {"high", "medium", "low"}

\* Scores: sums of the integer entries of the scoring tables, and a
\* negative number.
Scores == (0 - 2)..MaxScore

\* options: each threshold given or left to its default
OptionsPool ==
  [highThreshold : {Absent} \cup {Some(t) : t \in 0..MaxThreshold},
   mediumThreshold : {Absent} \cup {Some(t) : t \in 0..MaxThreshold}]

\* h tokens of confidence high, then m of medium, then l of low
TokensOf(h, m, l) ==
  [k \in 1..(h + m + l) |->
     [confidence |-> IF k <= h THEN "high" ELSE IF k <= h + m THEN "medium" ELSE "low"]]

Reverse(s) == [k \in 1..Len(s) |-> s[Len(s) + 1 - k]]

\* Token lists of up to MaxTokens tokens, grouped by confidence either way
TokenLists ==
  UNION {{TokensOf(c[1], c[2], c[3]), Reverse(TokensOf(c[1], c[2], c[3]))} :
           c \in {x \in (0..MaxTokens) \X (0..MaxTokens) \X (0..MaxTokens) :
                    x[1] + x[2] + x[3] <= MaxTokens}}

ConfidenceCalls ==
  {[fn |-> "scoreToConfidence", score |-> s] : s \in Scores}
  \cup {[fn |-> "countToConfidence", count |-> c, options |-> o] :
          c \in 0..MaxCount, o \in OptionsPool}
  \cup {[fn |-> "mergeConfidence", conf1 |-> a, conf2 |-> b] :
          a \in Levels \cup {"undefined"}, b \in Levels \cup {"undefined"}}
  \cup {[fn |-> "calculateOverallConfidence", tokens |-> t] : t \in TokenLists}

ConfidenceInit ==
  /\ callArg \in ConfidenceCalls
  /\ callRet = <<>>
  /\ callPc = "called"
  /\ OrchIdle /\ ColorIdle /\ DedupIdle /\ ProcIdle

Returns(fn, value) ==
  /\ callPc = "called"
  /\ callArg.fn = fn
  /\ callRet' = value
  /\ callPc' = "returned"
  /\ UNCHANGED <<callArg, orchVars, colorVars, dedupVars, procVars>>

ScoreToConfidence ==
  /\ callArg.fn = "scoreToConfidence"
  /\ Returns("scoreToConfidence", scoreToConfidence(callArg.score))

CountToConfidence ==
  /\ callArg.fn = "countToConfidence"
  /\ Returns("countToConfidence", countToConfidence(callArg.count, callArg.options))

MergeConfidenceCall ==
  /\ callArg.fn = "mergeConfidence"
  /\ Returns("mergeConfidence", mergeConfidence(callArg.conf1, callArg.conf2))

CalculateOverallConfidence ==
  /\ callArg.fn = "calculateOverallConfidence"
  /\ Returns("calculateOverallConfidence", calculateOverallConfidence(callArg.tokens))

ConfidenceNext ==
  \/ ScoreToConfidence
  \/ CountToConfidence
  \/ MergeConfidenceCall
  \/ CalculateOverallConfidence

SpecConfidence == ConfidenceInit /\ [][ConfidenceNext]_vars

(***************************************************************************)
(* extractors/spacing.js: processSpacing                                   *)
(***************************************************************************)

\* The elements of a set of integers in ascending order: Object.entries of
\* an object whose keys are integers
RECURSIVE Ascending(_)
Ascending(S) ==
  IF S = {} THEN <<>>
  ELSE Bind(CHOOSE m \in S : \A x \in S : m <= x,
            LAMBDA m : <<m>> \o Ascending(S \ {m}))

\* Math.round(value) of every sample
RoundedValues(samples) == [k \in 1..Len(samples) |-> MathRound(samples[k]).n]

\* Object.entries(counts) mapped to { value: parseInt(value), count }: the
\* key is the rounded value as a decimal string.
CountEntries(rounded) ==
  Bind(Ascending(Range(rounded)),
       LAMBDA keys :
         [i \in 1..Len(keys) |->
            [value |-> parseInt(NatToString(keys[i], 10), 10).n,
             count |-> Cardinality({k \in 1..Len(rounded) : rounded[k] = keys[i]})]])

\* .sort((a, b) => b[1] - a[1]), a stable sort: e goes behind every entry
\* whose count is not lower.
CountInsert(sorted, e) ==
  Bind(Cardinality({k \in 1..Len(sorted) : sorted[k].count >= e.count}),
       LAMBDA n : SubSeq(sorted, 1, n) \o <<e>> \o SubSeq(sorted, n + 1, Len(sorted)))

RECURSIVE SortByCount(_)
SortByCount(entries) ==
  IF entries = <<>> THEN <<>>
  ELSE Bind(SortByCount(SubSeq(entries, 1, Len(entries) - 1)),
            LAMBDA sorted : CountInsert(sorted, entries[Len(entries)]))

\* k / n > p / q in doubles; 0 / 0 is NaN, which is above nothing.
RatioAbove(k, n, p, q) == n > 0 /\ DGt(DDiv(k, n), DDiv(p, q))

\* sorted.filter(s => s.value % base === 0).length
MultiplesOf(sorted, base) ==
  Cardinality({k \in 1..Len(sorted) : sorted[k].value % base = 0})

commonMultipliers == <<1, 2, 3, 4, 6, 8, 12, 16>>

NotFound == [found |-> FALSE, value |-> 0, count |-> 0]

\* arr.find(test), given the elements that pass the test
FirstOf(hits) ==
  IF hits = <<>> THEN NotFound
  ELSE [found |-> TRUE, value |-> hits[1].value, count |-> hits[1].count]

\* sorted.find(s => s.value === target)
FindValue(sorted, target) ==
  FirstOf(SelectSeq(sorted, LAMBDA s : s.value = target))

\* A scale that asks for three occurrences.
IsFrequentThrice(f) == f.found /\ f.count >= 3

\* found && found.count >= 2
IsFrequent(f) == f.found /\ f.count >= 2

\* scaleValues: the common multiples of the base that occur at least twice
ScaleValues(sorted, baseValue) ==
  Bind(SelectSeq([i \in 1..Len(commonMultipliers) |->
                    FindValue(sorted, baseValue * commonMultipliers[i])],
                 IsFrequent),
       LAMBDA kept : [k \in 1..Len(kept) |-> [value |-> kept[k].value, count |-> kept[k].count]])

\* The unit of detectSpacingScale
BaseValue(sorted) ==
  IF RatioAbove(MultiplesOf(sorted, 8), Len(sorted), 7, 10) THEN 8 ELSE 4

GridType(sorted) ==
  IF RatioAbove(MultiplesOf(sorted, 4), Len(sorted), 6, 10) THEN "4px grid"
  ELSE IF RatioAbove(MultiplesOf(sorted, 8), Len(sorted), 6, 10) THEN "8px grid"
  ELSE "custom"

\* `${n}px`
Px(n) == NatToString(n, 10) \o <<"p", "x">>

\* detectSpacingScale(sorted)
detectSpacingScale(sorted) ==
  Bind(BaseValue(sorted),
       LAMBDA baseValue :
         [unit |-> Px(baseValue), baseValue |-> baseValue,
          values |-> ScaleValues(sorted, baseValue), type |-> GridType(sorted)])

\* standardScale of mapToScaleNames: the multiple of the base each name
\* stands for
StandardMultiple ==
  [name \in {"xs", "sm", "md", "lg", "xl", "2xl", "3xl"} |->
     CASE name = "xs" -> 1 [] name = "sm" -> 2 [] name = "md" -> 4
       [] name = "lg" -> 6 [] name = "xl" -> 8 [] name = "2xl" -> 12
       [] name = "3xl" -> 16]

NoOptions == [highThreshold |-> Absent, mediumThreshold |-> Absent]

\* values.find(v => Math.abs(v.value - expectedValue) <= baseValue / 2)
FindNear(scaleValues, expectedValue, baseValue) ==
  FirstOf(SelectSeq(scaleValues, LAMBDA v : 2 * Abs(v.value - expectedValue) <= baseValue))

\* { value: `${found.value}px`, confidence: countToConfidence(found.count) }
SpacingToken(f) ==
  [value |-> Px(f.value), confidence |-> countToConfidence(f.count, NoOptions)]

\* mapToScaleNames(scale): the names for which a value was found
mapToScaleNames(scale) ==
  Bind([name \in DOMAIN StandardMultiple |->
          FindNear(scale.values, scale.baseValue * StandardMultiple[name], scale.baseValue)],
       LAMBDA found :
         [name \in {n \in DOMAIN StandardMultiple : found[n].found} |->
            SpacingToken(found[name])])

NoToken == [def |-> FALSE, value |-> <<>>, confidence |-> "undefined"]

\* f ? { value, confidence } : undefined
TokenOrUndefined(f) ==
  IF f.found THEN [def |-> TRUE] @@ SpacingToken(f) ELSE NoToken

\* largeValues.find(s => s.count >= 3)
PageMargin(largeValues) ==
  TokenOrUndefined(FirstOf(SelectSeq(largeValues, LAMBDA s : s.count >= 3)))

\* largeValues.find(s => s.value >= 32 && s.count >= 2)
SectionGap(largeValues) ==
  TokenOrUndefined(FirstOf(SelectSeq(largeValues, LAMBDA s : s.value >= 32 /\ s.count >= 2)))

\* The object processSpacing returns, from sorted and scale
SpacingResult(sorted, scale) ==
  Bind(SelectSeq(sorted, LAMBDA s : s.value >= 16 /\ s.value <= 48),
       LAMBDA largeValues :
         [unit |-> IF scale.unit = <<>> THEN Px(4) ELSE scale.unit,
          scale |-> mapToScaleNames(scale),
          componentPadding |-> "undefined",
          pageMargin |-> PageMargin(largeValues),
          sectionGap |-> SectionGap(largeValues)])

\* processSpacing(raw) for a page none of whose buttons, inputs, cards and
\* modals has padding (componentPadding holds four empty lists)
processSpacing(raw) ==
  Bind(SortByCount(CountEntries(RoundedValues(raw.values))),
       LAMBDA sorted : SpacingResult(sorted, detectSpacingScale(sorted)))

MaxValues == 7

\* Pixel values the page function collects: numbers in (0, 500), 7.5 among
\* them, in ascending order
SpacingPool == <<Num(3), Num(4), Rat(15, 2), Num(8), Num(16), Num(24), Num(32)>>

\* The lists of n indices into SpacingPool that never descend
RECURSIVE NonDescending(_)
NonDescending(n) ==
  IF n = 0 THEN {<<>>}
  ELSE UNION {{Append(s, i) : i \in (IF s = <<>> THEN 1 ELSE s[Len(s)])..Len(SpacingPool)} :
                s \in NonDescending(n - 1)}

\* Sample lists of up to MaxValues values, ascending or descending
SpacingInputs ==
  UNION {UNION {{[k \in 1..n |-> SpacingPool[s[k]]],
                 Reverse([k \in 1..n |-> SpacingPool[s[k]]])} : s \in NonDescending(n)} :
           n \in 0..MaxValues}

NoComponentPadding == [button |-> <<>>, input |-> <<>>, card |-> <<>>, modal |-> <<>>]

SpacingInit ==
  /\ callArg \in {[fn |-> "processSpacing",
                   raw |-> [values |-> v, componentPadding |-> NoComponentPadding]] :
                    v \in SpacingInputs}
  /\ callRet = <<>>
  /\ callPc = "called"
  /\ OrchIdle /\ ColorIdle /\ DedupIdle /\ ProcIdle

\* const processed = processSpacing(rawSpacing)
ProcessSpacing ==
  /\ callArg.fn = "processSpacing"
  /\ Returns("processSpacing", processSpacing(callArg.raw))

SpacingNext == ProcessSpacing

SpecSpacing == SpacingInit /\ [][SpacingNext]_vars

(***************************************************************************)
(* extractors/breakpoints.js: mapBreakpoints                               *)
(***************************************************************************)

\* The defaults returned when no breakpoint was detected
DefaultBreakpoints ==
  [name \in {"sm", "md", "lg", "xl"} |->
     CASE name = "sm" -> Px(640) [] name = "md" -> Px(768)
       [] name = "lg" -> Px(1024) [] name = "xl" -> Px(1280)]

standards ==
  [name \in {"sm", "md", "lg", "xl", "2xl"} |->
     CASE name = "sm" -> <<480, 576, 640>> [] name = "md" -> <<768, 800>>
       [] name = "lg" -> <<992, 1024>> [] name = "xl" -> <<1200, 1280>>
       [] name = "2xl" -> <<1400, 1536>>]

\* Math.abs(bp - target) <= 48
IsNear(bp, target) == Abs(bp - target) <= 48

\* breakpoints.find(bp => Math.abs(bp - target) <= 48): the index of the
\* first such breakpoint, 0 for undefined
FindMatch(breakpoints, target) ==
  IF \E k \in 1..Len(breakpoints) : IsNear(breakpoints[k], target)
    THEN CHOOSE k \in 1..Len(breakpoints) :
           /\ IsNear(breakpoints[k], target)
           /\ \A j \in 1..(k - 1) : ~IsNear(breakpoints[j], target)
    ELSE 0

\* for (const target of targets): the match of the first target that has
\* one, 0 when none has
RECURSIVE TargetLoop(_, _, _)
TargetLoop(breakpoints, targets, i) ==
  IF i > Len(targets) THEN 0
  ELSE Bind(FindMatch(breakpoints, targets[i]),
            LAMBDA match : IF match # 0 THEN match
                           ELSE TargetLoop(breakpoints, targets, i + 1))

\* result after the loop over the standard names
StandardMatches(breakpoints) ==
  Bind([name \in DOMAIN standards |-> TargetLoop(breakpoints, standards[name], 1)],
       LAMBDA match :
         [name \in {n \in DOMAIN standards : match[n] # 0} |-> Px(breakpoints[match[name]])])

ScaleNames == <<"sm", "md", "lg", "xl", "2xl">>

\* The first five detected values, named in order
FirstFive(breakpoints) ==
  [name \in {ScaleNames[i] : i \in 1..Min2(Len(breakpoints), Len(ScaleNames))} |->
     Px(breakpoints[CHOOSE i \in 1..Len(ScaleNames) : ScaleNames[i] = name])]

\* mapBreakpoints past the test for an empty list
MapDetected(breakpoints) ==
  Bind(StandardMatches(breakpoints),
       LAMBDA matched :
         IF DOMAIN matched = {} /\ Len(breakpoints) > 0
           THEN FirstFive(breakpoints)
           ELSE matched)

\* A mapBreakpoints without the defaults for an empty list.
mapBreakpointsNoDefaults(breakpoints) == MapDetected(breakpoints)

\* mapBreakpoints(breakpoints)
mapBreakpoints(breakpoints) ==
  IF Len(breakpoints) = 0 THEN DefaultBreakpoints ELSE MapDetected(breakpoints)

MaxBreakpoints == 4

\* Widths found in media queries, each between 320 and 2560
BreakpointPool == {540, 580, 600, 640, 700, 768, 1000, 1280, 1500}

\* Array.from(breakpoints).sort((a, b) => a - b): distinct, ascending
BreakpointLists ==
  {Ascending(S) : S \in {T \in SUBSET BreakpointPool : Cardinality(T) <= MaxBreakpoints}}

BreakpointInit ==
  /\ callArg \in {[fn |-> "mapBreakpoints", breakpoints |-> b] : b \in BreakpointLists}
  /\ callRet = <<>>
  /\ callPc = "called"
  /\ OrchIdle /\ ColorIdle /\ DedupIdle /\ ProcIdle

\* const mapped = mapBreakpoints(raw)
MapBreakpoints ==
  /\ callArg.fn = "mapBreakpoints"
  /\ Returns("mapBreakpoints", mapBreakpoints(callArg.breakpoints))

BreakpointNext == MapBreakpoints

SpecBreakpoints == BreakpointInit /\ [][BreakpointNext]_vars

(***************************************************************************)
(* frameworks.js: detectFrameworks                                         *)
(*                                                                         *)
(* A document is the sequence of its elements in document order; an        *)
(* element is its classList and the set of its attribute names.  The model *)
(* keeps five entries of FRAMEWORK_PATTERNS and returns the frameworks     *)
(* field of the detection; iconSystems and cssMethodology are computed     *)
(* from the same classes without reading or writing that field.            *)
(***************************************************************************)

\* FRAMEWORK_PATTERNS, in the order of Object.entries; a regular expression
\* is named by its source, a missing list is the empty list
FRAMEWORK_PATTERNS ==
  << [name |-> "Material UI (MUI)",
      classPatterns |-> <<"^Mui[A-Z]", "^css-[a-z0-9]+-Mui">>,
      dataAttributes |-> <<>>, elementPatterns |-> <<>>,
      minMatches |-> 3, confidence |-> "high"],
     [name |-> "Chakra UI",
      classPatterns |-> <<"^chakra-", "^css-[a-z0-9]+$">>,
      dataAttributes |-> << <<"d", "a", "t", "a", "-", "c", "h", "a", "k", "r", "a", "-", "c", "o", "m", "p", "o", "n", "e", "n", "t">> >>, elementPatterns |-> <<>>,
      minMatches |-> 3, confidence |-> "high"],
     [name |-> "Ant Design",
      classPatterns |-> <<"^ant-">>,
      dataAttributes |-> <<>>, elementPatterns |-> <<>>,
      minMatches |-> 3, confidence |-> "high"],
     [name |-> "Radix UI",
      classPatterns |-> <<>>,
      dataAttributes |-> << <<"d", "a", "t", "a", "-", "r", "a", "d", "i", "x", "-">>, <<"d", "a", "t", "a", "-", "s", "t", "a", "t", "e">>, <<"d", "a", "t", "a", "-", "s", "i", "d", "e">>, <<"d", "a", "t", "a", "-", "a", "l", "i", "g", "n">> >>,
      elementPatterns |-> <<>>,
      minMatches |-> 5, confidence |-> "medium"],
     [name |-> "Vuetify",
      classPatterns |-> <<"^v-">>,
      dataAttributes |-> <<>>,
      elementPatterns |-> << [selector |-> <<".", "v", "-", "b", "t", "n">>, minCount |-> 1],
                             [selector |-> <<".", "v", "-", "c", "a", "r", "d">>, minCount |-> 1],
                             [selector |-> <<".", "v", "-", "a", "p", "p">>, minCount |-> 1] >>,
      minMatches |-> 5, confidence |-> "high"] >>

IsLowerOrDigit(c) == c \in Range(LowerChars) \/ c \in Range(DigitChars)

\* cls has one or more of [a-z0-9] from position 5 up to position k
LowerOrDigitRun(cls, k) == k >= 5 /\ k <= Len(cls) /\ \A j \in 5..k : IsLowerOrDigit(cls[j])

\* new RegExp(pattern.source || pattern).test(cls)
RegExpTest(pattern, cls) ==
  CASE pattern = "^ant-" -> startsWith(cls, <<"a", "n", "t", "-">>)
    [] pattern = "^chakra-" -> startsWith(cls, <<"c", "h", "a", "k", "r", "a", "-">>)
    [] pattern = "^v-" -> startsWith(cls, <<"v", "-">>)
    [] pattern = "^Mui[A-Z]" ->
         startsWith(cls, <<"M", "u", "i">>) /\ Len(cls) >= 4 /\ cls[4] \in Range(UpperChars)
    [] pattern = "^css-[a-z0-9]+-Mui" ->
         /\ startsWith(cls, <<"c", "s", "s", "-">>)
         /\ \E k \in 5..Len(cls) :
              /\ LowerOrDigitRun(cls, k)
              /\ startsWith(SubSeq(cls, k + 1, Len(cls)), <<"-", "M", "u", "i">>)
    [] pattern = "^css-[a-z0-9]+$" ->
         startsWith(cls, <<"c", "s", "s", "-">>) /\ LowerOrDigitRun(cls, Len(cls))

\* for (const cls of el.classList) allClasses.add(cls), over one element
RECURSIVE AddClasses(_, _, _)
AddClasses(classArray, classList, i) ==
  IF i > Len(classList) THEN classArray
  ELSE AddClasses(IF classList[i] \in Range(classArray) THEN classArray
                  ELSE Append(classArray, classList[i]),
                  classList, i + 1)

\* Array.from(allClasses): the distinct classes of the page, in the order
\* of their first occurrence
RECURSIVE CollectClasses(_, _, _)
CollectClasses(classArray, doc, i) ==
  IF i > Len(doc) THEN classArray
  ELSE CollectClasses(AddClasses(classArray, doc[i].classList, 1), doc, i + 1)

\* document.querySelectorAll(selector).length, for the selectors .class and
\* [attribute]
QuerySelectorAll(doc, selector) ==
  IF selector[1] = "."
    THEN Cardinality({i \in 1..Len(doc) :
                        SubSeq(selector, 2, Len(selector)) \in Range(doc[i].classList)})
    ELSE Cardinality({i \in 1..Len(doc) :
                        SubSeq(selector, 2, Len(selector) - 1) \in doc[i].attributes})

\* list.join(', ')
RECURSIVE JoinComma(_)
JoinComma(list) ==
  IF Len(list) = 0 THEN <<>>
  ELSE IF Len(list) = 1 THEN list[1]
  ELSE list[1] \o <<",", " ">> \o JoinComma(Tail(list))

\* `Classes: ${matches.slice(0, 3).join(', ')}${matches.length > 3 ? '...' : ''}`
ClassEvidence(matches) ==
  <<"C", "l", "a", "s", "s", "e", "s", ":", " ">> \o JoinComma(SubSeq(matches, 1, Min2(3, Len(matches))))
    \o (IF Len(matches) > 3 THEN <<".", ".", ".">> ELSE <<>>)

\* ` (${found.length})`
CountSuffix(found) == <<" ", "(">> \o NatToString(found, 10) \o <<")">>

\* for (const pattern of framework.classPatterns)
RECURSIVE ClassPatternLoop(_, _, _, _)
ClassPatternLoop(acc, patterns, classArray, i) ==
  IF i > Len(patterns) THEN acc
  ELSE Bind(SelectSeq(classArray, LAMBDA cls : RegExpTest(patterns[i], cls)),
            LAMBDA matches :
              ClassPatternLoop(
                IF Len(matches) > 0
                  THEN [matchCount |-> acc.matchCount + Len(matches),
                        evidence |-> Append(acc.evidence, ClassEvidence(matches))]
                  ELSE acc,
                patterns, classArray, i + 1))

\* for (const attr of framework.dataAttributes)
RECURSIVE DataAttributeLoop(_, _, _, _)
DataAttributeLoop(acc, attrs, doc, i) ==
  IF i > Len(attrs) THEN acc
  ELSE Bind(QuerySelectorAll(doc, <<"[">> \o attrs[i] \o <<"]">>),
            LAMBDA found :
              DataAttributeLoop(
                IF found > 0
                  THEN [matchCount |-> acc.matchCount + found,
                        evidence |-> Append(acc.evidence,
                                            <<"A", "t", "t", "r", "i", "b", "u", "t", "e", ":", " ">> \o attrs[i] \o CountSuffix(found))]
                  ELSE acc,
                attrs, doc, i + 1))

\* for (const ep of framework.elementPatterns)
RECURSIVE ElementPatternLoop(_, _, _, _)
ElementPatternLoop(acc, eps, doc, i) ==
  IF i > Len(eps) THEN acc
  ELSE Bind(QuerySelectorAll(doc, eps[i].selector),
            LAMBDA found :
              ElementPatternLoop(
                IF found >= eps[i].minCount
                  THEN [matchCount |-> acc.matchCount + found,
                        evidence |-> Append(acc.evidence,
                                            <<"E", "l", "e", "m", "e", "n", "t", "s", ":", " ">> \o eps[i].selector \o CountSuffix(found))]
                  ELSE acc,
                eps, doc, i + 1))

\* matchCount and evidence of one framework after its three loops
MatchesOf(framework, doc, classArray) ==
  ElementPatternLoop(
    DataAttributeLoop(
      ClassPatternLoop([matchCount |-> 0, evidence |-> <<>>],
                       framework.classPatterns, classArray, 1),
      framework.dataAttributes, doc, 1),
    framework.elementPatterns, doc, 1)

\* if (matchCount >= framework.minMatches)
IsDetected(matchCount, framework) == matchCount >= framework.minMatches

\* for (const [key, framework] of Object.entries(patterns)): results.frameworks
RECURSIVE FrameworkLoop(_, _, _, _)
FrameworkLoop(frameworks, doc, classArray, i) ==
  IF i > Len(FRAMEWORK_PATTERNS) THEN frameworks
  ELSE Bind(MatchesOf(FRAMEWORK_PATTERNS[i], doc, classArray),
            LAMBDA m :
              FrameworkLoop(
                IF IsDetected(m.matchCount, FRAMEWORK_PATTERNS[i])
                  THEN Append(frameworks,
                              [name |-> FRAMEWORK_PATTERNS[i].name,
                               confidence |-> FRAMEWORK_PATTERNS[i].confidence,
                               matchCount |-> m.matchCount,
                               evidence |-> SubSeq(m.evidence, 1, Min2(3, Len(m.evidence)))])
                  ELSE frameworks,
                doc, classArray, i + 1))

\* The comparator of detection.frameworks.sort: negative when a sorts first
CompareFrameworks(a, b) ==
  IF ConfidenceOrder(b.confidence) - ConfidenceOrder(a.confidence) # 0
    THEN ConfidenceOrder(b.confidence) - ConfidenceOrder(a.confidence)
    ELSE b.matchCount - a.matchCount

\* One insertion of the stable sort: f goes before the first entry it
\* strictly precedes
FrameworkInsert(sorted, f) ==
  Bind(Cardinality({k \in 1..Len(sorted) :
                      \A j \in 1..k : CompareFrameworks(f, sorted[j]) >= 0}),
       LAMBDA n : SubSeq(sorted, 1, n) \o <<f>> \o SubSeq(sorted, n + 1, Len(sorted)))

RECURSIVE SortFrameworks(_)
SortFrameworks(frameworks) ==
  IF Len(frameworks) = 0 THEN <<>>
  ELSE FrameworkInsert(SortFrameworks(SubSeq(frameworks, 1, Len(frameworks) - 1)),
                       frameworks[Len(frameworks)])

\* detectFrameworks(page).frameworks
detectFrameworks(doc) ==
  SortFrameworks(FrameworkLoop(<<>>, doc, CollectClasses(<<>>, doc, 1), 1))

MaxPageElements == 4

PageElement(classList, attributes) == [classList |-> classList, attributes |-> attributes]

\* Elements of a page: Ant Design, MUI, Chakra, Radix and Vuetify markup
PageElementPool ==
  { PageElement(<< <<"a", "n", "t", "-", "b", "t", "n">> >>, {}),
    PageElement(<< <<"a", "n", "t", "-", "b", "t", "n">>, <<"a", "n", "t", "-", "b", "t", "n", "-", "p", "r", "i", "m", "a", "r", "y">> >>, {}),
    PageElement(<< <<"a", "n", "t", "-", "i", "n", "p", "u", "t">> >>, {}),
    PageElement(<< <<"M", "u", "i", "B", "u", "t", "t", "o", "n">>, <<"c", "s", "s", "-", "1", "a", "-", "M", "u", "i", "B", "u", "t", "t", "o", "n">> >>, {}),
    PageElement(<< <<"c", "h", "a", "k", "r", "a", "-", "b", "t", "n">>, <<"c", "s", "s", "-", "1", "a">> >>, { <<"d", "a", "t", "a", "-", "c", "h", "a", "k", "r", "a", "-", "c", "o", "m", "p", "o", "n", "e", "n", "t">> }),
    PageElement(<<>>, { <<"d", "a", "t", "a", "-", "s", "t", "a", "t", "e">>, <<"d", "a", "t", "a", "-", "s", "i", "d", "e">> }),
    PageElement(<< <<"v", "-", "b", "t", "n">> >>, {}),
    PageElement(<< <<"h", "e", "r", "o">> >>, {}) }

RECURSIVE PagesOf(_)
PagesOf(n) ==
  IF n = 0 THEN {<<>>}
  ELSE PagesOf(n - 1) \cup
       {Append(doc, el) : doc \in {d \in PagesOf(n - 1) : Len(d) = n - 1},
                          el \in PageElementPool}

FrameworkInit ==
  /\ callArg \in {[fn |-> "detectFrameworks", doc |-> d] : d \in PagesOf(MaxPageElements)}
  /\ callRet = <<>>
  /\ callPc = "called"
  /\ OrchIdle /\ ColorIdle /\ DedupIdle /\ ProcIdle

\* const detection = await detectFrameworks(page)
DetectFrameworks ==
  /\ callArg.fn = "detectFrameworks"
  /\ Returns("detectFrameworks", detectFrameworks(callArg.doc))

FrameworkNext == DetectFrameworks

SpecFrameworks == FrameworkInit /\ [][FrameworkNext]_vars

(***************************************************************************)
(* Pages for the radius and shadow extractors: the raw samples of a page   *)
(* are runs of equal samples, one run for each of several distinct styles. *)
(***************************************************************************)

\* The lists of at most n distinct members of pool
RECURSIVE DistinctLists(_, _)
DistinctLists(pool, n) ==
  IF n = 0 THEN {<<>>}
  ELSE DistinctLists(pool, n - 1) \cup
       UNION {{Append(l, x) : x \in pool \ Range(l)} :
                l \in {m \in DistinctLists(pool, n - 1) : Len(m) = n - 1}}

\* uses[k] copies of styles[k], for each k in turn
RECURSIVE RunsOf(_, _)
RunsOf(styles, uses) ==
  IF Len(styles) = 0 THEN <<>>
  ELSE [k \in 1..Head(uses) |-> Head(styles)] \o RunsOf(Tail(styles), Tail(uses))

(***************************************************************************)
(* extractors/borders.js: processRadii                                     *)
(***************************************************************************)

\* value.includes('%')
HasPercent(value) == "%" \in Range(value)

FullRadius == <<"9", "9", "9", "9", "p", "x">>

\* normalizeRadius(value): NullStr for null
normalizeRadius(value) ==
  IF value = <<>> \/ value = <<"0", "p", "x">> \/ value = <<"0">> THEN NullStr
  ELSE Bind(parseFloat(value),
            LAMBDA px :
              IF HasPercent(value) \/ value = FullRadius \/ value = <<"9", "9", "9", "p", "x">>
                 \/ (~px.nan /\ ~RLt(px, Num(9999)))
                THEN FullRadius
              ELSE IF px.nan \/ ~RLt(Num(0), px) THEN NullStr
              ELSE NumberToString(MathRound(px), 10) \o <<"p", "x">>)

\* parseRadiusValue(value)
parseRadiusValue(value) ==
  IF value = FullRadius \/ HasPercent(value) THEN Num(9999)
  ELSE Bind(parseFloat(value), LAMBDA px : IF px.nan \/ IsZero(px) THEN Num(0) ELSE px)

\* The body of the loop of processRadii over rawRadii: groups is the list of
\* Object.values(groups), in the order the keys were created
RadiusStep(groups, item) ==
  Bind(normalizeRadius(item.value),
       LAMBDA value :
         IF value = NullStr THEN groups
         ELSE IF \E k \in 1..Len(groups) : groups[k].value = value
           THEN [k \in 1..Len(groups) |->
                   IF groups[k].value = value
                     THEN [groups[k] EXCEPT
                             !.count = @ + 1,
                             !.elements = IF item.elementType \in Range(@) THEN @
                                          ELSE Append(@, item.elementType)]
                     ELSE groups[k]]
         ELSE Append(groups, [value |-> value, count |-> 1,
                              elements |-> <<item.elementType>>]))

RECURSIVE RadiusLoop(_, _, _)
RadiusLoop(groups, rawRadii, i) ==
  IF i > Len(rawRadii) THEN groups
  ELSE RadiusLoop(RadiusStep(groups, rawRadii[i]), rawRadii, i + 1)

\* .map(g => ({value, count, elements, confidence: countToConfidence(g.count)}))
RadiusEntry(g) ==
  [value |-> g.value, count |-> g.count, elements |-> g.elements,
   confidence |-> countToConfidence(g.count, NoOptions)]

\* .sort((a, b) => parseRadiusValue(a.value) - parseRadiusValue(b.value)):
\* one insertion of the stable sort
RadiusInsert(sorted, item) ==
  Bind(Cardinality({k \in 1..Len(sorted) :
                      \A j \in 1..k :
                        ~RLt(parseRadiusValue(item.value), parseRadiusValue(sorted[j].value))}),
       LAMBDA n : SubSeq(sorted, 1, n) \o <<item>> \o SubSeq(sorted, n + 1, Len(sorted)))

RECURSIVE SortRadii(_)
SortRadii(items) ==
  IF Len(items) = 0 THEN <<>>
  ELSE RadiusInsert(SortRadii(SubSeq(items, 1, Len(items) - 1)), items[Len(items)])

\* The bucket of one sorted entry in mapRadiiToScale; every comparison with
\* NaN is false and the entry then fills no bucket
RadiusBucket(item) ==
  Bind(parseFloat(item.value),
       LAMBDA px :
         IF (~px.nan /\ ~RLt(px, Num(9999))) \/ HasPercent(item.value) THEN "full"
         ELSE IF ~px.nan /\ ~RLt(Num(4), px) THEN "sm"
         ELSE IF ~px.nan /\ ~RLt(Num(8), px) THEN "md"
         ELSE IF ~px.nan /\ ~RLt(Num(16), px) THEN "lg"
         ELSE IF RLt(px, Num(9999)) THEN "xl"
         ELSE "none")

\* The token written for the first entry of a bucket
RadiusToken(bucket, item) ==
  [value |-> IF bucket = "full" THEN FullRadius ELSE item.value,
   usage |-> IF bucket = "full" \/ Len(item.elements) > 0
               THEN JoinComma(item.elements) ELSE Undefined,
   confidence |-> item.confidence]

\* mapRadiiToScale(sorted): none, and for each other bucket its first entry
mapRadiiToScale(sorted) ==
  [name \in {"none"} \cup {RadiusBucket(sorted[k]) : k \in 1..Len(sorted)} |->
     IF name = "none"
       THEN [value |-> <<"0", "p", "x">>, usage |-> Undefined, confidence |-> "high"]
       ELSE RadiusToken(name,
                        sorted[CHOOSE k \in 1..Len(sorted) :
                                 /\ RadiusBucket(sorted[k]) = name
                                 /\ \A j \in 1..(k - 1) :
                                      RadiusBucket(sorted[j]) # name])]

\* processRadii(rawRadii)
processRadii(rawRadii) ==
  Bind(RadiusLoop(<<>>, rawRadii, 1),
       LAMBDA groups :
         mapRadiiToScale(SortRadii([k \in 1..Len(groups) |-> RadiusEntry(groups[k])])))

MaxRadii == 3

MaxUses == 3

\* {value: borderTopLeftRadius, elementType} of visible elements whose
\* border-radius is not 0px
RadiusPool ==
  { [value |-> <<"0", ".", "4", "p", "x">>, elementType |-> <<"o", "t", "h", "e", "r">>],
    [value |-> <<"2", "p", "x">>, elementType |-> <<"i", "n", "p", "u", "t">>],
    [value |-> <<"4", "p", "x">>, elementType |-> <<"b", "u", "t", "t", "o", "n">>],
    [value |-> <<"4", "p", "x", " ", "8", "p", "x">>, elementType |-> <<"c", "a", "r", "d">>],
    [value |-> <<"7", ".", "6", "p", "x">>, elementType |-> <<"c", "a", "r", "d">>],
    [value |-> <<"1", "2", "p", "x">>, elementType |-> <<"m", "o", "d", "a", "l">>],
    [value |-> <<"2", "4", "p", "x">>, elementType |-> <<"b", "a", "d", "g", "e">>],
    [value |-> <<"5", "0", "%">>, elementType |-> <<"i", "m", "a", "g", "e">>] }

\* A style is used once or MaxUses times
UsesOf(styles) == [1..Len(styles) -> {1, MaxUses}]

RadiiInit ==
  /\ \E styles \in DistinctLists(RadiusPool, MaxRadii) :
       \E uses \in UsesOf(styles) :
         callArg = [fn |-> "processRadii", rawRadii |-> RunsOf(styles, uses)]
  /\ callRet = <<>>
  /\ callPc = "called"
  /\ OrchIdle /\ ColorIdle /\ DedupIdle /\ ProcIdle

\* const processedRadii = processRadii(raw.radii)
ProcessRadii ==
  /\ callArg.fn = "processRadii"
  /\ Returns("processRadii", processRadii(callArg.rawRadii))

RadiiNext == ProcessRadii

SpecRadii == RadiiInit /\ [][RadiiNext]_vars

(***************************************************************************)
(* extractors/shadows.js: processShadows                                   *)
(*                                                                         *)
(* Offsets and blurs are whole pixels, so yOffset + blur / 2 is exact in   *)
(* double arithmetic and the elevation is the rational of the same value.  *)
(***************************************************************************)

\* The position where /rgba?\(/i matches at i ends, 0 when it does not match
ColorOpenEnd(shadow, i) ==
  IF LowerChar(shadow[i]) # "r" THEN 0
  ELSE IF toLowerCase(Slice(shadow, i, i + 4)) = <<"r", "g", "b", "a", "(">> THEN i + 4
  ELSE IF toLowerCase(Slice(shadow, i, i + 3)) = <<"r", "g", "b", "(">> THEN i + 3
  ELSE 0

\* The position where /rgba?\([^)]+\)/i matches at i ends, 0 when it does
\* not match
ColorMatchEnd(shadow, i) ==
  Bind(ColorOpenEnd(shadow, i),
       LAMBDA open :
         IF open = 0 THEN 0
         ELSE IF \A k \in (open + 2)..Len(shadow) : shadow[k] # ")" THEN 0
         ELSE IF open + 1 > Len(shadow) \/ shadow[open + 1] = ")" THEN 0
         ELSE CHOOSE close \in (open + 2)..Len(shadow) :
                /\ shadow[close] = ")"
                /\ \A k \in (open + 2)..(close - 1) : shadow[k] # ")")

\* match.replace(/\s+/g, '')
RemoveSpaces(s) == SelectSeq(s, LAMBDA c : ~IsSpace(c))

\* shadow.replace(/rgba?\([^)]+\)/gi, match => match.replace(/\s+/g, ''))
\* from position i on
RECURSIVE ReplaceColors(_, _)
ReplaceColors(shadow, i) ==
  IF i > Len(shadow) THEN <<>>
  ELSE Bind(ColorMatchEnd(shadow, i),
            LAMBDA end :
              IF end = 0 THEN <<shadow[i]>> \o ReplaceColors(shadow, i + 1)
              ELSE RemoveSpaces(Slice(shadow, i, end)) \o ReplaceColors(shadow, end + 1))

\* normalizeShadow(shadow): NullStr for null
normalizeShadow(shadow) ==
  IF shadow = <<>> \/ shadow = <<"n", "o", "n", "e">> THEN NullStr
  ELSE trim(ReplaceColors(shadow, 1))

NumberChars == Range(DigitChars) \cup {"."}

\* /([\d.]+)px/ at position i: the capture and the position after it
PxAt(s, i) ==
  Bind(SkipIn(s, i, NumberChars),
       LAMBDA e :
         IF e > i /\ Slice(s, e, e + 1) = <<"p", "x">>
           THEN [ok |-> TRUE, text |-> Slice(s, i, e - 1), next |-> e + 2]
           ELSE [ok |-> FALSE, text |-> <<>>, next |-> i])

\* /\s+([\d.]+)px/ at position i
SpacedPxAt(s, i) ==
  Bind(SkipSpaces(s, i),
       LAMBDA e : IF e > i THEN PxAt(s, e)
                  ELSE [ok |-> FALSE, text |-> <<>>, next |-> i])

\* /([\d.]+)px\s+([\d.]+)px\s+([\d.]+)px/ at position i: captures 2 and 3
ThreePxAt(s, i) ==
  Bind(PxAt(s, i),
       LAMBDA first :
         IF ~first.ok THEN [ok |-> FALSE, y |-> <<>>, blur |-> <<>>]
         ELSE Bind(SpacedPxAt(s, first.next),
                   LAMBDA second :
                     IF ~second.ok THEN [ok |-> FALSE, y |-> <<>>, blur |-> <<>>]
                     ELSE Bind(SpacedPxAt(s, second.next),
                               LAMBDA third :
                                 IF ~third.ok THEN [ok |-> FALSE, y |-> <<>>, blur |-> <<>>]
                                 ELSE [ok |-> TRUE, y |-> second.text, blur |-> third.text])))

\* shadow.match(...): the leftmost match from position i on
RECURSIVE ShadowMatch(_, _)
ShadowMatch(shadow, i) ==
  IF i > Len(shadow) THEN [ok |-> FALSE, y |-> <<>>, blur |-> <<>>]
  ELSE Bind(ThreePxAt(shadow, i),
            LAMBDA m : IF m.ok THEN m ELSE ShadowMatch(shadow, i + 1))

\* parseFloat(text) || 0
FloatOrZero(text) ==
  Bind(parseFloat(text), LAMBDA x : IF x.nan \/ IsZero(x) THEN Num(0) ELSE x)

\* estimateElevation(shadow)
estimateElevation(shadow) ==
  Bind(ShadowMatch(shadow, 1),
       LAMBDA m :
         IF ~m.ok THEN Num(0)
         ELSE RAdd(FloatOrZero(m.y), RDivInt(FloatOrZero(m.blur), 2)))

\* The names added to usedOn for one item, in the order of the four tests
UsedOnOf(classes) ==
  (IF includes(classes, <<"c", "a", "r", "d">>) THEN <<"cards">> ELSE <<>>)
  \o (IF includes(classes, <<"b", "u", "t", "t", "o", "n">>) \/ includes(classes, <<"b", "t", "n">>)
        THEN <<"buttons">> ELSE <<>>)
  \o (IF includes(classes, <<"m", "o", "d", "a", "l">>) \/ includes(classes, <<"d", "i", "a", "l", "o", "g">>)
        THEN <<"modals">> ELSE <<>>)
  \o (IF includes(classes, <<"d", "r", "o", "p", "d", "o", "w", "n">>) \/ includes(classes, <<"m", "e", "n", "u">>)
        THEN <<"dropdowns">> ELSE <<>>)

\* usedOn after adding the names, each once
AddAll(usedOn, names) ==
  usedOn \o SelectSeq(names, LAMBDA n : n \notin Range(usedOn))

\* The body of the loop of processShadows over rawShadows
ShadowStep(groups, item) ==
  Bind(normalizeShadow(item.value),
       LAMBDA normalized :
         IF normalized = NullStr \/ normalized = <<>> THEN groups
         ELSE IF \E k \in 1..Len(groups) : groups[k].value = normalized
           THEN [k \in 1..Len(groups) |->
                   IF groups[k].value = normalized
                     THEN [groups[k] EXCEPT
                             !.count = @ + 1,
                             !.usedOn = AddAll(@, UsedOnOf(item.classes))]
                     ELSE groups[k]]
         ELSE Append(groups, [value |-> normalized, count |-> 1,
                              usedOn |-> UsedOnOf(item.classes)]))

RECURSIVE ShadowLoop(_, _, _)
ShadowLoop(groups, rawShadows, i) ==
  IF i > Len(rawShadows) THEN groups
  ELSE ShadowLoop(ShadowStep(groups, rawShadows[i]), rawShadows, i + 1)

UsageName(n) ==
  CASE n = "cards" -> <<"c", "a", "r", "d", "s">> [] n = "buttons" -> <<"b", "u", "t", "t", "o", "n", "s">>
    [] n = "modals" -> <<"m", "o", "d", "a", "l", "s">> [] n = "dropdowns" -> <<"d", "r", "o", "p", "d", "o", "w", "n", "s">>

\* .map(g => ({value, count, usage, confidence, elevation}))
ShadowEntry(g) ==
  [value |-> g.value, count |-> g.count,
   usage |-> IF Len(g.usedOn) = 0 THEN Undefined
             ELSE JoinComma([k \in 1..Len(g.usedOn) |-> UsageName(g.usedOn[k])]),
   confidence |-> countToConfidence(g.count, NoOptions),
   elevation |-> estimateElevation(g.value)]

\* .sort((a, b) => a.elevation - b.elevation): one insertion of the stable
\* sort
ShadowInsert(sorted, item) ==
  Bind(Cardinality({k \in 1..Len(sorted) :
                      \A j \in 1..k : ~RLt(item.elevation, sorted[j].elevation)}),
       LAMBDA n : SubSeq(sorted, 1, n) \o <<item>> \o SubSeq(sorted, n + 1, Len(sorted)))

RECURSIVE SortShadows(_)
SortShadows(items) ==
  IF Len(items) = 0 THEN <<>>
  ELSE ShadowInsert(SortShadows(SubSeq(items, 1, Len(items) - 1)), items[Len(items)])

\* formatShadowToken(shadow)
formatShadowToken(shadow) ==
  [value |-> shadow.value, usage |-> shadow.usage, confidence |-> shadow.confidence]

\* sorted.filter(s => s.confidence !== 'low' || s.count >= 3)
IsSignificantShadow(s) == s.confidence # "low" \/ s.count >= 3

\* A quartile that is always 1.
QuartileOne(n) == 1

\* Math.floor(significant.length / 4)
Quartile(n) == n \div 4

\* The scale for the significant shadows; positions count from 1
ScaleOfSignificant(significant) ==
  Bind(Len(significant),
       LAMBDA n :
         IF n = 0 THEN <<>>
         ELSE IF n >= 4
           THEN [name \in {"sm", "md", "lg", "xl"} |->
                   formatShadowToken(
                     significant[CASE name = "sm" -> 1
                                   [] name = "md" -> Quartile(n) + 1
                                   [] name = "lg" -> Quartile(n) * 2 + 1
                                   [] name = "xl" -> n])]
         ELSE IF n = 3
           THEN [name \in {"sm", "md", "lg"} |->
                   formatShadowToken(
                     significant[CASE name = "sm" -> 1 [] name = "md" -> 2
                                   [] name = "lg" -> 3])]
         ELSE IF n = 2
           THEN [name \in {"sm", "lg"} |->
                   formatShadowToken(significant[IF name = "sm" THEN 1 ELSE 2])]
         ELSE [name \in {"md"} |-> formatShadowToken(significant[1])])

\* mapShadowsToScale(sorted)
mapShadowsToScale(sorted) ==
  ScaleOfSignificant(SelectSeq(sorted, IsSignificantShadow))

\* processShadows(rawShadows)
processShadows(rawShadows) ==
  Bind(ShadowLoop(<<>>, rawShadows, 1),
       LAMBDA groups :
         mapShadowsToScale(SortShadows([k \in 1..Len(groups) |-> ShadowEntry(groups[k])])))

MaxShadows == 5

\* {value: boxShadow, classes} of visible elements whose box-shadow is not
\* none
ShadowPool ==
  { [value |-> <<"r", "g", "b", "a", "(", "0", ",", " ", "0", ",", " ", "0", ",", " ", "0", ".", "0", "5", ")", " ", "0", "p", "x", " ", "1", "p", "x", " ", "2", "p", "x", " ", "0", "p", "x">>, classes |-> <<"b", "t", "n", " ", "b", "t", "n", "-", "p", "r", "i", "m", "a", "r", "y">>],
    [value |-> <<"r", "g", "b", "a", "(", "0", ",", " ", "0", ",", " ", "0", ",", " ", "0", ".", "1", ")", " ", "0", "p", "x", " ", "4", "p", "x", " ", "6", "p", "x", " ", "-", "1", "p", "x">>, classes |-> <<"c", "a", "r", "d">>],
    [value |-> <<"r", "g", "b", "a", "(", "0", ",", " ", "0", ",", " ", "0", ",", " ", "0", ".", "1", ")", " ", "0", "p", "x", " ", "-", "4", "p", "x", " ", "6", "p", "x", " ", "0", "p", "x">>, classes |-> <<"f", "o", "o", "t", "e", "r">>],
    [value |-> <<"r", "g", "b", "(", "0", ",", " ", "0", ",", " ", "0", ")", " ", "0", "p", "x", " ", "2", "p", "x", " ", "0", "p", "x", " ", "0", "p", "x">>, classes |-> <<"c", "a", "r", "d", "-", "b", "u", "t", "t", "o", "n">>],
    [value |-> <<"r", "g", "b", "a", "(", "0", ",", " ", "0", ",", " ", "0", ",", " ", "0", ".", "2", "5", ")", " ", "0", "p", "x", " ", "2", "5", "p", "x", " ", "5", "0", "p", "x", " ", "-", "1", "2", "p", "x">>, classes |-> <<"m", "o", "d", "a", "l">>] }

MaxSorted == 9

\* The k-th of a list of distinct shadows of ascending elevation
ShadowValue(k) ==
  <<"r", "g", "b", "a", "(", "0", ",", "0", ",", "0", ",", "0", ".", "1", ")", " ">> \o NatToString(k, 10) \o <<"p", "x", " ">>
    \o NatToString((k + 1) \div 2, 10) \o <<"p", "x", " ", "4", "p", "x", " ", "0", "p", "x">>

\* An entry of the list processShadows hands to mapShadowsToScale
SortedShadow(k, count) ==
  [value |-> ShadowValue(k), count |-> count, usage |-> Undefined,
   confidence |-> countToConfidence(count, NoOptions),
   elevation |-> estimateElevation(ShadowValue(k))]

\* Each style of a page is used twice or three times; so is each entry of a
\* sorted list
ShadowInit ==
  /\ \/ \E n \in 0..MaxSorted :
          \E uses \in [1..n -> {2, 3}] :
            callArg = [fn |-> "mapShadowsToScale",
                       sorted |-> [k \in 1..n |-> SortedShadow(k, uses[k])]]
     \/ \E styles \in DistinctLists(ShadowPool, MaxShadows) :
          \E uses \in [1..Len(styles) -> {2, 3}] :
            callArg = [fn |-> "processShadows", rawShadows |-> RunsOf(styles, uses)]
  /\ callRet = <<>>
  /\ callPc = "called"
  /\ OrchIdle /\ ColorIdle /\ DedupIdle /\ ProcIdle

\* const processed = processShadows(rawShadows)
ProcessShadows ==
  /\ callArg.fn = "processShadows"
  /\ Returns("processShadows", processShadows(callArg.rawShadows))

\* return mapShadowsToScale(sorted)
MapShadowsToScale ==
  /\ callArg.fn = "mapShadowsToScale"
  /\ Returns("mapShadowsToScale", mapShadowsToScale(callArg.sorted))

ShadowNext == ProcessShadows \/ MapShadowsToScale

SpecShadows == ShadowInit /\ [][ShadowNext]_vars

(***************************************************************************)
(* extractors/colors.js: mapVariablesToCategories, categorizeColors and    *)
(* the three calls that end extractColors                                  *)
(*                                                                         *)
(* cssVariables is the list of Object.entries of the variables object:     *)
(* distinct names in the order of their first assignment.  The result of   *)
(* categorizeColors is its ten slots that can be filled (the slot          *)
(* "background" is background.default, "text" is text.primary, "border" is *)
(* border.default, "success" is semantic.success, ...) and its palette; of *)
(* a token's fields hex, usage and confidence are kept.                    *)
(***************************************************************************)
(* extractors/typography.js                                                *)
(*                                                                         *)
(* A document gives, for each key of TYPOGRAPHY_SELECTORS, the elements    *)
(* its selector matches, each with the computed style the page function    *)
(* reads.  The page function is evaluated in the page: page.evaluate       *)
(* serialises it, so of the module's scope it has its argument only.       *)
(***************************************************************************)

\* The keys of TYPOGRAPHY_SELECTORS, in order
TYPOGRAPHY_ROLES ==
  <<"h1", "h2", "h3", "h4", "body", "bodySmall", "caption", "button", "label", "link", "nav">>

\* if (style.display === 'none' || style.visibility === 'hidden') continue
IsSkipped(el) == el.display = <<"n", "o", "n", "e">> \/ el.visibility = <<"h", "i", "d", "d", "e", "n">>

\* const data = { fontFamily: style.fontFamily, ... }
DataOf(el) ==
  [fontFamily |-> el.fontFamily, fontSize |-> el.fontSize, fontWeight |-> el.fontWeight,
   lineHeight |-> el.lineHeight, letterSpacing |-> el.letterSpacing,
   textTransform |-> el.textTransform]

\* The samples the inner loop pushes for the elements of one selector
RECURSIVE SamplesOf(_)
SamplesOf(elements) ==
  IF elements = <<>> THEN <<>>
  ELSE Bind(SamplesOf(SubSeq(elements, 1, Len(elements) - 1)),
            LAMBDA samples :
              IF IsSkipped(elements[Len(elements)]) THEN samples
              ELSE Append(samples, DataOf(elements[Len(elements)])))

\* What the call getMostCommon(samples) does in the page, where no
\* getMostCommon is defined
ReferenceError ==
  [thrown |-> TRUE, name |-> "ReferenceError", message |-> "getMostCommon is not defined"]

\* const results = { styles: {}, allFonts: [], allSizes: [] }
NoResults == [thrown |-> FALSE, styles |-> <<>>, allFonts |-> <<>>, allSizes |-> <<>>]

\* The body of the loop over Object.entries(selectors) for one context:
\* with no visible element nothing is pushed and results.styles is left
\* alone, with one the call of getMostCommon throws
ContextStep(results, elements) ==
  Bind(SamplesOf(elements),
       LAMBDA samples : IF Len(samples) > 0 THEN ReferenceError ELSE results)

\* The page function after the first n contexts
RECURSIVE PageFunction(_, _)
PageFunction(doc, n) ==
  IF n = 0 THEN NoResults
  ELSE Bind(PageFunction(doc, n - 1),
            LAMBDA results :
              IF results.thrown THEN results
              ELSE ContextStep(results, doc[TYPOGRAPHY_ROLES[n]]))

\* The generic families parseFontFamily passes over
GenericFamilies ==
  { <<"s", "e", "r", "i", "f">>, <<"s", "a", "n", "s", "-", "s", "e", "r", "i", "f">>, <<"m", "o", "n", "o", "s", "p", "a", "c", "e">>, <<"c", "u", "r", "s", "i", "v", "e">>, <<"f", "a", "n", "t", "a", "s", "y">>, <<"s", "y", "s", "t", "e", "m", "-", "u", "i">>,
    <<"u", "i", "-", "s", "e", "r", "i", "f">>, <<"u", "i", "-", "s", "a", "n", "s", "-", "s", "e", "r", "i", "f">>, <<"u", "i", "-", "m", "o", "n", "o", "s", "p", "a", "c", "e">>, <<"u", "i", "-", "r", "o", "u", "n", "d", "e", "d">>, <<"-", "a", "p", "p", "l", "e", "-", "s", "y", "s", "t", "e", "m">>,
    <<"b", "l", "i", "n", "k", "m", "a", "c", "s", "y", "s", "t", "e", "m", "f", "o", "n", "t">> }

\* s.split(',')
RECURSIVE SplitComma(_)
SplitComma(s) ==
  IF "," \notin Range(s) THEN <<s>>
  ELSE Bind(CHOOSE i \in 1..Len(s) : s[i] = "," /\ \A j \in 1..(i - 1) : s[j] # ",",
            LAMBDA i : <<SubSeq(s, 1, i - 1)>> \o SplitComma(SubSeq(s, i + 1, Len(s))))

IsQuote(c) == c = "'" \/ c = "\""

\* f.trim().replace(/^["']|["']$/g, '')
CleanFont(f) ==
  Bind(trim(f),
       LAMBDA t :
         Bind(IF Len(t) > 0 /\ IsQuote(t[1]) THEN SubSeq(t, 2, Len(t)) ELSE t,
              LAMBDA u : IF Len(u) > 0 /\ IsQuote(u[Len(u)])
                           THEN SubSeq(u, 1, Len(u) - 1) ELSE u))

\* fonts.join(', ')
RECURSIVE JoinFonts(_)
JoinFonts(fonts) ==
  IF Len(fonts) = 1 THEN fonts[1]
  ELSE JoinFonts(SubSeq(fonts, 1, Len(fonts) - 1)) \o <<",", " ">> \o fonts[Len(fonts)]

\* parseFontFamily(fontFamily)
parseFontFamily(fontFamily) ==
  IF fontFamily = <<>> THEN NullStr
  ELSE Bind([k \in 1..Len(SplitComma(fontFamily)) |-> CleanFont(SplitComma(fontFamily)[k])],
            LAMBDA fonts :
              Bind(SelectSeq(fonts, LAMBDA font : toLowerCase(font) \notin GenericFamilies),
                   LAMBDA named : IF Len(named) > 0 THEN named[1] ELSE JoinFonts(fonts)))

\* The named weights of normalizeWeight
WeightMap ==
  { <<<<"t", "h", "i", "n">>, <<"1", "0", "0">>>>, <<<<"h", "a", "i", "r", "l", "i", "n", "e">>, <<"1", "0", "0">>>>, <<<<"e", "x", "t", "r", "a", "l", "i", "g", "h", "t">>, <<"2", "0", "0">>>>,
    <<<<"e", "x", "t", "r", "a", "-", "l", "i", "g", "h", "t">>, <<"2", "0", "0">>>>, <<<<"l", "i", "g", "h", "t">>, <<"3", "0", "0">>>>, <<<<"n", "o", "r", "m", "a", "l">>, <<"4", "0", "0">>>>,
    <<<<"r", "e", "g", "u", "l", "a", "r">>, <<"4", "0", "0">>>>, <<<<"m", "e", "d", "i", "u", "m">>, <<"5", "0", "0">>>>, <<<<"s", "e", "m", "i", "b", "o", "l", "d">>, <<"6", "0", "0">>>>,
    <<<<"s", "e", "m", "i", "-", "b", "o", "l", "d">>, <<"6", "0", "0">>>>, <<<<"b", "o", "l", "d">>, <<"7", "0", "0">>>>, <<<<"e", "x", "t", "r", "a", "b", "o", "l", "d">>, <<"8", "0", "0">>>>,
    <<<<"e", "x", "t", "r", "a", "-", "b", "o", "l", "d">>, <<"8", "0", "0">>>>, <<<<"b", "l", "a", "c", "k">>, <<"9", "0", "0">>>>, <<<<"h", "e", "a", "v", "y">>, <<"9", "0", "0">>>> }

\* /^\d+$/.test(s)
AllDigits(s) == Len(s) > 0 /\ \A k \in 1..Len(s) : IsDigit(s[k])

\* normalizeWeight(weight)
normalizeWeight(weight) ==
  IF weight = <<>> THEN NullStr
  ELSE IF AllDigits(weight) THEN weight
  ELSE IF \E e \in WeightMap : e[1] = toLowerCase(weight)
    THEN (CHOOSE e \in WeightMap : e[1] = toLowerCase(weight))[2]
  ELSE weight

\* s.endsWith('px')
EndsWithPx(s) == Len(s) >= 2 /\ SubSeq(s, Len(s) - 1, Len(s)) = <<"p", "x">>

\* x.toFixed(2) of a quotient n / d that is not negative
ToFixed2(n, d) ==
  Bind((200 * n + d) \div (2 * d),
       LAMBDA hundredths :
         NatToString(hundredths \div 100, 10)
           \o <<".", DigitChars[((hundredths % 100) \div 10) + 1],
                DigitChars[(hundredths % 10) + 1]>>)

\* The branch of normalizeLineHeight that converts px to a ratio
PxRatio(lineHeight, lhPx, fsPx) ==
  IF ~lhPx.nan /\ ~fsPx.nan /\ fsPx.n > 0
    THEN ToFixed2(lhPx.n * fsPx.d, lhPx.d * fsPx.n)
    ELSE lineHeight

\* normalizeLineHeight(lineHeight, fontSize)
normalizeLineHeight(lineHeight, fontSize) ==
  IF lineHeight = <<>> \/ lineHeight = <<"n", "o", "r", "m", "a", "l">> THEN <<"1", ".", "5">>
  ELSE IF \A k \in 1..Len(lineHeight) : IsDigit(lineHeight[k]) \/ lineHeight[k] = "."
    THEN lineHeight
  ELSE IF EndsWithPx(lineHeight) /\ fontSize # <<>> /\ EndsWithPx(fontSize)
    THEN PxRatio(lineHeight, parseFloat(lineHeight), parseFloat(fontSize))
  ELSE lineHeight

\* result.styles[context] of processTypography, the null values deleted:
\* a field not defined is a key the style does not have
StyleOf(data) ==
  [fontSize |-> IF data.fontSize # <<>> THEN Some(data.fontSize) ELSE AbsentSeq,
   fontWeight |-> IF normalizeWeight(data.fontWeight) # NullStr
                    THEN Some(normalizeWeight(data.fontWeight)) ELSE AbsentSeq,
   lineHeight |-> Some(normalizeLineHeight(data.lineHeight, data.fontSize)),
   letterSpacing |-> IF data.letterSpacing # <<"n", "o", "r", "m", "a", "l">>
                       THEN Some(data.letterSpacing) ELSE AbsentSeq,
   fontFamily |-> IF data.fontFamily # <<>>
                    THEN Some(parseFontFamily(data.fontFamily)) ELSE AbsentSeq,
   textTransform |-> IF data.textTransform # <<"n", "o", "n", "e">>
                       THEN Some(data.textTransform) ELSE AbsentSeq,
   confidence |-> countToConfidence(data.sampleCount, [highThreshold |-> Absent,
                                                       mediumThreshold |-> Absent])]

\* The second loop of processTypography over Object.entries(raw.styles)
ProcessedStyles(styles) ==
  [k \in 1..Len(styles) |-> [context |-> styles[k].context, style |-> StyleOf(styles[k].data)]]

\* The parsed families of the contexts among `contexts` that have one
FamiliesOf(styles, contexts) ==
  Bind(SelectSeq(styles, LAMBDA e : e.context \in contexts /\ e.data.fontFamily # <<>>),
       LAMBDA found : [k \in 1..Len(found) |-> parseFontFamily(found[k].data.fontFamily)])

\* getMostCommonValue(arr), null for an empty array: the first of the values
\* that occur most often, in the order of their first occurrence
getMostCommonValue(arr) ==
  IF Len(arr) = 0 THEN NullStr
  ELSE arr[CHOOSE i \in 1..Len(arr) :
             /\ \A j \in 1..Len(arr) :
                  Cardinality({k \in 1..Len(arr) : arr[k] = arr[j]})
                    <= Cardinality({k \in 1..Len(arr) : arr[k] = arr[i]})
             /\ \A j \in 1..(i - 1) :
                  Cardinality({k \in 1..Len(arr) : arr[k] = arr[j]})
                    < Cardinality({k \in 1..Len(arr) : arr[k] = arr[i]})]

\* isMonospace(font)
isMonospace(font) ==
  /\ font # <<>> /\ font # NullStr
  /\ \E sub \in {<<"m", "o", "n", "o">>, <<"c", "o", "d", "e">>, <<"c", "o", "n", "s", "o", "l", "a", "s">>, <<"c", "o", "u", "r", "i", "e", "r">>, <<"f", "i", "r", "a", " ", "c", "o", "d", "e">>,
                 <<"s", "o", "u", "r", "c", "e", " ", "c", "o", "d", "e">>, <<"j", "e", "t", "b", "r", "a", "i", "n", "s">>} : includes(toLowerCase(font), sub)

\* allFonts.find(f => isMonospace(f)), null for none
MonoFont(allFonts) ==
  Bind(SelectSeq([k \in 1..Len(allFonts) |-> parseFontFamily(allFonts[k])], isMonospace),
       LAMBDA found : IF Len(found) > 0 THEN found[1] ELSE NullStr)

\* processTypography(raw, fontSources)
processTypography(raw, fontSources) ==
  [fontFamilies |->
     [heading |-> getMostCommonValue(FamiliesOf(raw.styles, {"h1", "h2", "h3", "h4"})),
      body |-> getMostCommonValue(FamiliesOf(raw.styles, {"body", "bodySmall"})),
      mono |-> MonoFont(raw.allFonts)],
   styles |-> ProcessedStyles(raw.styles),
   sources |-> fontSources]

\* extractTypography(page): the promise's outcome
extractTypography(doc, fontSources) ==
  Bind(PageFunction(doc, Len(TYPOGRAPHY_ROLES)),
       LAMBDA rawTypography :
         IF rawTypography.thrown THEN rawTypography
         ELSE [thrown |-> FALSE] @@ processTypography(rawTypography, fontSources))

MaxRoleElements == 2

ComputedStyle(display, visibility, fontFamily, fontSize, fontWeight, lineHeight, textTransform) ==
  [display |-> display, visibility |-> visibility, fontFamily |-> fontFamily,
   fontSize |-> fontSize, fontWeight |-> fontWeight, lineHeight |-> lineHeight,
   letterSpacing |-> <<"n", "o", "r", "m", "a", "l">>, textTransform |-> textTransform]

\* Elements a selector may match: three that are visible and two that are not
TypographyPool ==
  { ComputedStyle(<<"b", "l", "o", "c", "k">>, <<"v", "i", "s", "i", "b", "l", "e">>, <<"I", "n", "t", "e", "r", ",", " ", "s", "a", "n", "s", "-", "s", "e", "r", "i", "f">>, <<"1", "6", "p", "x">>, <<"4", "0", "0">>, <<"2", "4", "p", "x">>, <<"n", "o", "n", "e">>),
    ComputedStyle(<<"b", "l", "o", "c", "k">>, <<"v", "i", "s", "i", "b", "l", "e">>, <<"I", "n", "t", "e", "r", ",", " ", "s", "a", "n", "s", "-", "s", "e", "r", "i", "f">>, <<"3", "2", "p", "x">>, <<"7", "0", "0">>, <<"n", "o", "r", "m", "a", "l">>, <<"n", "o", "n", "e">>),
    ComputedStyle(<<"i", "n", "l", "i", "n", "e">>, <<"v", "i", "s", "i", "b", "l", "e">>, <<"\"", "F", "i", "r", "a", " ", "C", "o", "d", "e", "\"", ",", " ", "m", "o", "n", "o", "s", "p", "a", "c", "e">>, <<"1", "6", "p", "x">>, <<"7", "0", "0">>, <<"2", "4", "p", "x">>, <<"u", "p", "p", "e", "r", "c", "a", "s", "e">>),
    ComputedStyle(<<"n", "o", "n", "e">>, <<"v", "i", "s", "i", "b", "l", "e">>, <<"I", "n", "t", "e", "r", ",", " ", "s", "a", "n", "s", "-", "s", "e", "r", "i", "f">>, <<"1", "6", "p", "x">>, <<"4", "0", "0">>, <<"2", "4", "p", "x">>, <<"n", "o", "n", "e">>),
    ComputedStyle(<<"b", "l", "o", "c", "k">>, <<"h", "i", "d", "d", "e", "n">>, <<"G", "e", "o", "r", "g", "i", "a", ",", " ", "s", "e", "r", "i", "f">>, <<"3", "2", "p", "x">>, <<"7", "0", "0">>, <<"n", "o", "r", "m", "a", "l">>, <<"n", "o", "n", "e">>) }

\* The lists of at most n elements of a pool
ListsUpTo(pool, n) == UNION {[1..k -> pool] : k \in 0..n}

\* What extractFontSources finds: nothing, or one Google font
FontSourcesPool ==
  { [googleFonts |-> <<>>, adobeFonts |-> NullStr, variableFonts |-> <<>>, customFonts |-> <<>>],
    [googleFonts |-> <<<<"I", "n", "t", "e", "r">>>>, adobeFonts |-> NullStr, variableFonts |-> <<>>,
     customFonts |-> <<>>] }

\* A document with headings, paragraphs and buttons
TypographyDocument(h1, body, button) ==
  [role \in Range(TYPOGRAPHY_ROLES) |->
     CASE role = "h1" -> h1
       [] role = "body" -> body
       [] role = "button" -> button
       [] OTHER -> <<>>]

TypographyInit ==
  /\ \E h1 \in ListsUpTo(TypographyPool, MaxRoleElements) :
       \E body \in ListsUpTo(TypographyPool, 1) :
         \E button \in ListsUpTo(TypographyPool, 1) :
           \E fontSources \in FontSourcesPool :
             callArg = [fn |-> "extractTypography",
                        doc |-> TypographyDocument(h1, body, button),
                        fontSources |-> fontSources]
  /\ callRet = <<>>
  /\ callPc = "called"
  /\ OrchIdle /\ ColorIdle /\ DedupIdle /\ ProcIdle

\* extractTypography(page): callPc says whether the promise is fulfilled
\* or rejected
ExtractTypography ==
  /\ callPc = "called"
  /\ callArg.fn = "extractTypography"
  /\ callRet' = extractTypography(callArg.doc, callArg.fontSources)
  /\ callPc' = IF extractTypography(callArg.doc, callArg.fontSources).thrown
                 THEN "thrown" ELSE "returned"
  /\ UNCHANGED <<callArg, orchVars, colorVars, dedupVars, procVars>>

TypographyNext == ExtractTypography

SpecTypography == TypographyInit /\ [][TypographyNext]_vars

(***************************************************************************)

\* rgbToLch(rgb): L* and chroma in thousandths
rgbToLch(rgb) ==
  Bind(rgbToLab(rgb),
       LAMBDA lab : IF lab.nan THEN [nan |-> TRUE, l |-> 0, c |-> 0]
                    ELSE [nan |-> FALSE, l |-> lab.l, c |-> LchCMilli[lab.of]])

\* The else-if chain of mapVariablesToCategories: the category of each
\* branch and the substrings its test looks for
CategoryChain ==
  << [slot |-> "primary", keywords |-> { <<"p", "r", "i", "m", "a", "r", "y">> }],
     [slot |-> "secondary", keywords |-> { <<"s", "e", "c", "o", "n", "d", "a", "r", "y">> }],
     [slot |-> "accent", keywords |-> { <<"a", "c", "c", "e", "n", "t">> }],
     [slot |-> "success", keywords |-> { <<"s", "u", "c", "c", "e", "s", "s">> }],
     [slot |-> "warning", keywords |-> { <<"w", "a", "r", "n", "i", "n", "g">> }],
     [slot |-> "error", keywords |-> { <<"e", "r", "r", "o", "r">>, <<"d", "a", "n", "g", "e", "r">>, <<"d", "e", "s", "t", "r", "u", "c", "t", "i", "v", "e">> }],
     [slot |-> "info", keywords |-> { <<"i", "n", "f", "o">> }],
     [slot |-> "background", keywords |-> { <<"b", "a", "c", "k", "g", "r", "o", "u", "n", "d">>, <<"b", "g", "-", "d", "e", "f", "a", "u", "l", "t">> }],
     [slot |-> "text", keywords |-> { <<"f", "o", "r", "e", "g", "r", "o", "u", "n", "d">>, <<"t", "e", "x", "t", "-", "p", "r", "i", "m", "a", "r", "y">> }],
     [slot |-> "border", keywords |-> { <<"b", "o", "r", "d", "e", "r">> }] >>

Slots == {CategoryChain[k].slot : k \in 1..Len(CategoryChain)}

\* const categories = {}
NoCategories ==
  [primary |-> NullStr,
   secondary |-> NullStr,
   accent |-> NullStr,
   success |-> NullStr,
   warning |-> NullStr,
   error |-> NullStr,
   info |-> NullStr,
   background |-> NullStr,
   text |-> NullStr,
   border |-> NullStr]

\* The test of branch k of the chain
BranchTaken(categories, lower, k) ==
  /\ \E keyword \in CategoryChain[k].keywords : includes(lower, keyword)
  /\ categories[CategoryChain[k].slot] = NullStr

\* The body of the loop of mapVariablesToCategories, once hex is computed
WithVariableHex(categories, lower, hex) ==
  IF hex = NullStr \/ hex = <<>> THEN categories
  ELSE IF \E k \in 1..Len(CategoryChain) : BranchTaken(categories, lower, k)
    THEN [categories EXCEPT
            ![CategoryChain[CHOOSE k \in 1..Len(CategoryChain) :
                              /\ BranchTaken(categories, lower, k)
                              /\ \A j \in 1..(k - 1) : ~BranchTaken(categories, lower, j)].slot]
              = hex]
  ELSE categories

VariableStep(categories, variable) ==
  Bind(normalizeToHex(variable.value),
       LAMBDA hex :
         Bind(toLowerCase(variable.name),
              LAMBDA lower : WithVariableHex(categories, lower, hex)))

\* mapVariablesToCategories(variables)
RECURSIVE mapVariablesToCategories(_)
mapVariablesToCategories(variables) ==
  IF variables = <<>> THEN NoCategories
  ELSE Bind(mapVariablesToCategories(SubSeq(variables, 1, Len(variables) - 1)),
            LAMBDA categories : VariableStep(categories, variables[Len(variables)]))

NullToken == [null |-> TRUE, hex |-> <<>>, usage |-> "", confidence |-> "undefined"]

\* formatColorToken(hex, confidence, usage)
formatColorToken(hex, confidence, usage) ==
  IF parseColor(hex).null THEN NullToken
  ELSE [null |-> FALSE, hex |-> toUpperCase(hex), usage |-> usage, confidence |-> confidence]

\* if (varCategories.x) result.x = formatColorToken(varCategories.x, 'high',
\* 'From CSS variable'), for the ten categories
VariableToken(hex) ==
  IF hex # NullStr THEN formatColorToken(hex, "high", "From CSS variable") ELSE NullToken

\* primary: null, secondary: null, ... of the result structure
NoTokens ==
  [primary |-> NullToken,
   secondary |-> NullToken,
   accent |-> NullToken,
   success |-> NullToken,
   warning |-> NullToken,
   error |-> NullToken,
   info |-> NullToken,
   background |-> NullToken,
   text |-> NullToken,
   border |-> NullToken]

RECURSIVE VariableTokens(_, _)
VariableTokens(varCategories, n) ==
  IF n = 0 THEN NoTokens
  ELSE Bind(VariableTokens(varCategories, n - 1),
            LAMBDA slots :
              Bind(VariableToken(varCategories[CategoryChain[n].slot]),
                   LAMBDA token : [slots EXCEPT ![CategoryChain[n].slot] = token]))

FromVariables(varCategories) == VariableTokens(varCategories, Len(CategoryChain))

\* lch of a colour record's hex; null when the hex does not parse
LchOf(c) ==
  Bind(parseColor(c.hex),
       LAMBDA rgb : IF rgb.null THEN [null |-> TRUE, nan |-> TRUE, l |-> 0, c |-> 0]
                    ELSE [null |-> FALSE] @@ rgbToLch(rgb))

\* The colours of a list, each with the rgbToLch(parseColor(c.hex)) that
\* isNeutral and the tests of the find calls compute from it
RECURSIVE WithLch(_)
WithLch(colors) ==
  IF colors = <<>> THEN <<>>
  ELSE Bind(WithLch(SubSeq(colors, 1, Len(colors) - 1)),
            LAMBDA done : Append(done, [color |-> colors[Len(colors)],
                                        lch |-> LchOf(colors[Len(colors)])]))

\* isNeutral(c.hex)
IsNeutralColor(c) == c.lch.null \/ (~c.lch.nan /\ c.lch.c < 10 * 1000)

\* s.includes('border') for a property of COLOR_PROPERTIES
IncludesBorder(property) ==
  property \in {"borderColor", "borderTopColor", "borderRightColor",
                "borderBottomColor", "borderLeftColor"}

\* The tests of the three sorted.find calls
IsBackgroundCandidate(c) == ~c.lch.null /\ ~c.lch.nan /\ c.lch.l > 90 * 1000

IsTextCandidate(c) ==
  /\ ~c.lch.null /\ ~c.lch.nan /\ c.lch.l < 30 * 1000
  /\ "color" \in Range(c.color.sources.v)

IsBorderCandidate(c) ==
  /\ ~c.lch.null /\ ~c.lch.nan
  /\ c.lch.l > 70 * 1000 /\ c.lch.l < 95 * 1000 /\ c.lch.c < 10 * 1000
  /\ \E k \in 1..Len(c.color.sources.v) : IncludesBorder(c.color.sources.v[k])

\* The five fills of categorizeColors, in the order of the code
FillOrder == <<"primary", "secondary", "background", "text", "border">>

FillUsage ==
  [primary |-> "Most prominent non-neutral color",
   secondary |-> "Second most prominent color",
   background |-> "Page background",
   text |-> "Primary text color",
   border |-> "Border color"]

\* The colours a fill's find or filter call accepts, in the order of the
\* list it searches: significant for primary and secondary, sorted for
\* background, text and border
CandidatesFor(slot, slots, sorted, significant) ==
  CASE slot = "primary" ->
         IF Len(significant) > 0
           THEN SelectSeq(significant, LAMBDA c : ~IsNeutralColor(c)) ELSE <<>>
    [] slot = "secondary" ->
         IF Len(significant) > 1
           THEN SelectSeq(significant,
                          LAMBDA c : /\ ~IsNeutralColor(c)
                                     /\ (slots["primary"].null
                                         \/ c.color.hex # slots["primary"].hex))
           ELSE <<>>
    [] slot = "background" -> SelectSeq(sorted, IsBackgroundCandidate)
    [] slot = "text" -> SelectSeq(sorted, IsTextCandidate)
    [] slot = "border" -> SelectSeq(sorted, IsBorderCandidate)

\* The token of the first entry of a list of candidates, null for none
TokenOfFirst(candidates, usage) ==
  Bind(candidates,
       LAMBDA found :
         IF Len(found) = 0 THEN NullToken
         ELSE formatColorToken(found[1].color.hex, found[1].color.confidence, usage))

\* if (!result.<slot> ...) { candidate = ...; if (candidate) result.<slot> =
\* formatColorToken(candidate.hex, candidate.confidence, usage) }
FillSlot(slots, slot, sorted, significant) ==
  IF slots[slot].null
    THEN Bind(TokenOfFirst(CandidatesFor(slot, slots, sorted, significant), FillUsage[slot]),
              LAMBDA token : IF token.null THEN slots ELSE [slots EXCEPT ![slot] = token])
    ELSE slots

\* The slots after the first n fills
RECURSIVE FillLoop(_, _, _, _)
FillLoop(slots, n, sorted, significant) ==
  IF n = 0 THEN slots
  ELSE Bind(FillLoop(slots, n - 1, sorted, significant),
            LAMBDA filled : FillSlot(filled, FillOrder[n], sorted, significant))

\* The slots of categorizeColors after the fills from the extracted colours
FillGaps(slots, sorted, significant) ==
  Bind(WithLch(sorted),
       LAMBDA all :
         FillLoop(slots, Len(FillOrder), all,
                  SelectSeq(all, LAMBDA c : IsSignificant(c.color))))

\* categorizeColors(colors, cssVariables)
categorizeColors(colors, cssVariables) ==
  Bind(SortByScore(colors),
       LAMBDA sorted :
         Bind(SelectSeq(sorted, IsSignificant),
              LAMBDA significant :
                Bind(mapVariablesToCategories(cssVariables),
                     LAMBDA varCategories :
                       Bind(FromVariables(varCategories),
                            LAMBDA slots :
                              [varCategories |-> varCategories,
                               slots |-> FillGaps(slots, sorted, significant),
                               palette |-> PaletteOf(significant)]))))

\* deduplicateColors(processColors(rawColors), 15): the dedupedColors of
\* extractColors
DedupedColors(rawColors) ==
  Bind(processColors(rawColors),
       LAMBDA processedColors : deduplicateColors(processedColors, 15))

MaxPageColors == 3

MaxVariables == 2

BodyElement == [tagName |-> <<"B", "O", "D", "Y">>, classes |-> <<>>, id |-> <<>>, role |-> <<>>]

\* Samples of a page: a red logo and a nearly red button, a blue link, a
\* white page, dark text, a grey border
PageColorPool ==
  { Sample(<<"r", "g", "b", "(", "2", "5", "5", ",", " ", "0", ",", " ", "0", ")">>, "color", LogoDiv),
    Sample(<<"r", "g", "b", "(", "2", "5", "4", ",", " ", "1", ",", " ", "1", ")">>, "backgroundColor", CardButton),
    Sample(<<"r", "g", "b", "(", "5", "9", ",", " ", "1", "3", "0", ",", " ", "2", "4", "6", ")">>, "color", NavLink),
    Sample(<<"r", "g", "b", "(", "2", "5", "5", ",", " ", "2", "5", "5", ",", " ", "2", "5", "5", ")">>, "backgroundColor", BodyElement),
    Sample(<<"r", "g", "b", "(", "1", "7", ",", " ", "1", "7", ",", " ", "1", "7", ")">>, "color", NavLink),
    Sample(<<"r", "g", "b", "(", "1", "3", ",", " ", "1", "3", ",", " ", "1", "3", ")">>, "color", BodyElement),
    Sample(<<"r", "g", "b", "(", "2", "2", "9", ",", " ", "2", "3", "1", ",", " ", "2", "3", "5", ")">>, "borderColor", CardButton) }

DedupedInit ==
  /\ \E rawColors \in DistinctLists(PageColorPool, MaxPageColors) :
       callArg = [fn |-> "deduplicateColors", rawColors |-> rawColors]
  /\ callRet = <<>>
  /\ callPc = "called"
  /\ OrchIdle /\ ColorIdle /\ DedupIdle /\ ProcIdle

\* const processedColors = processColors(rawColors);
\* const dedupedColors = deduplicateColors(processedColors, 15)
DeduplicateProcessed ==
  /\ callPc = "called"
  /\ callArg.fn = "deduplicateColors"
  /\ callRet' = DedupedColors(callArg.rawColors)
  /\ callPc' = "returned"
  /\ UNCHANGED <<callArg, orchVars, colorVars, dedupVars, procVars>>

DedupedNext == DeduplicateProcessed

SpecDeduped == DedupedInit /\ [][DedupedNext]_vars

\* A record of dedupedColors
Deduped(hex, count, score, confidence, sources, element) ==
  [hex |-> hex, count |-> Some(count), score |-> Some(score), confidence |-> confidence,
   sources |-> Some(sources), elements |-> Some(<<element>>)]

\* Records DedupedColors returns for samples of PageColorPool: the red of
\* the logo alone and merged with the button's, the blue and the dark grey
\* of the link, the white and the near-black of the body, the grey of the
\* button's border
DedupedPool ==
  { Deduped(<<"#", "F", "F", "0", "0", "0", "0">>, 1, 5, "low", <<"color">>, <<"D", "I", "V">>),
    Deduped(<<"#", "F", "F", "0", "0", "0", "0">>, 2, 5, "high", <<"color", "backgroundColor">>, <<"D", "I", "V">>),
    Deduped(<<"#", "3", "B", "8", "2", "F", "6">>, 1, 8, "medium", <<"color">>, <<"A">>),
    Deduped(<<"#", "F", "F", "F", "F", "F", "F">>, 1, 0, "low", <<"backgroundColor">>, <<"B", "O", "D", "Y">>),
    Deduped(<<"#", "1", "1", "1", "1", "1", "1">>, 1, 8, "medium", <<"color">>, <<"A">>),
    Deduped(<<"#", "0", "D", "0", "D", "0", "D">>, 1, 0, "low", <<"color">>, <<"B", "O", "D", "Y">>),
    Deduped(<<"#", "E", "5", "E", "7", "E", "B">>, 1, 29, "high", <<"borderColor">>, <<"D", "I", "V">>) }

\* Custom properties of :root, among them one that is no colour and one
\* whose value normalizeToHex turns into #NANNANNAN
VariablePool ==
  { [name |-> <<"-", "-", "p", "r", "i", "m", "a", "r", "y">>, value |-> <<"#", "2", "5", "6", "3", "e", "b">>],
    [name |-> <<"-", "-", "t", "e", "x", "t", "-", "p", "r", "i", "m", "a", "r", "y">>, value |-> <<"r", "g", "b", "(", "1", "7", ",", " ", "1", "7", ",", " ", "1", "7", ")">>],
    [name |-> <<"-", "-", "P", "r", "i", "m", "a", "r", "y", "-", "B", "o", "r", "d", "e", "r">>, value |-> <<"#", "e", "5", "e", "7", "e", "b">>],
    [name |-> <<"-", "-", "b", "a", "c", "k", "g", "r", "o", "u", "n", "d">>, value |-> <<"#", "f", "f", "f">>],
    [name |-> <<"-", "-", "p", "r", "i", "m", "a", "r", "y", "-", "f", "o", "n", "t">>, value |-> <<"I", "n", "t", "e", "r">>],
    [name |-> <<"-", "-", "p", "r", "i", "m", "a", "r", "y", "-", "h", "o", "v", "e", "r">>, value |-> <<"#", "g", "g", "g", "g", "g", "g">>],
    [name |-> <<"-", "-", "r", "a", "d", "i", "u", "s">>, value |-> <<"#", "0", "0", "0">>] }

\* The colours are a list deduplicateColors leaves as it is
CategorizeInit ==
  /\ \E colors \in DistinctLists(DedupedPool, MaxPageColors) :
       \E cssVariables \in DistinctLists(VariablePool, MaxVariables) :
         /\ deduplicateColors(colors, 15) = colors
         /\ callArg = [fn |-> "categorizeColors", colors |-> colors,
                       cssVariables |-> cssVariables]
  /\ callRet = <<>>
  /\ callPc = "called"
  /\ OrchIdle /\ ColorIdle /\ DedupIdle /\ ProcIdle

\* categorizeColors(dedupedColors, cssVariables)
Categorize ==
  /\ callPc = "called"
  /\ callArg.fn = "categorizeColors"
  /\ callRet' = categorizeColors(callArg.colors, callArg.cssVariables)
  /\ callPc' = "returned"
  /\ UNCHANGED <<callArg, orchVars, colorVars, dedupVars, procVars>>

CategorizeNext == Categorize

SpecCategorize == CategorizeInit /\ [][CategorizeNext]_vars

(***************************************************************************)
(* simulateInteractions: the loop that scrolls down the page               *)
(*                                                                         *)
(* callRet holds the locals of the call: currentScroll, lastScrollHeight,  *)
(* stuckCount and scrollInfo, with the number of iterations begun and the  *)
(* reason the loop was left.  What the page reports to getScrollInfo is    *)
(* chosen anew at every call.                                              *)
(***************************************************************************)

\* The largest power of two that is at most n, for n >= 1
RECURSIVE PowerOfTwoBelow(_)
PowerOfTwoBelow(n) == IF n < 2 THEN 1 ELSE 2 * PowerOfTwoBelow(n \div 2)

\* Math.floor(viewportHeight * 0.7) in doubles, for an integer height: the
\* double 0.7 is 0.2 / 2^52 below 7/10, so for a multiple of 10 the product
\* is rounded up to 7x/10 when that is at most 7/4 of the power of two below
\* it and stays under it otherwise
ScrollIncrementOf(viewportHeight) ==
  IF viewportHeight % 10 # 0 \/ viewportHeight = 0 THEN (7 * viewportHeight) \div 10
  ELSE Bind((7 * viewportHeight) \div 10,
            LAMBDA n : IF 4 * n <= 7 * PowerOfTwoBelow(n) THEN n ELSE n - 1)

\* if (scrollInfo.scrollHeight > lastScrollHeight) { lastScrollHeight = ...;
\* stuckCount = 0 }
AfterGrowth(locals, scrollInfo) ==
  IF scrollInfo.scrollHeight > locals.lastScrollHeight
    THEN [locals EXCEPT !.lastScrollHeight = scrollInfo.scrollHeight,
                        !.stuckCount = 0,
                        !.scrollInfo = scrollInfo]
    ELSE [locals EXCEPT !.scrollInfo = scrollInfo]

\* const atBottom = scrollInfo.scrollTop + viewportHeight >= scrollInfo.scrollHeight - 10
AtBottom(scrollInfo, viewportHeight) ==
  scrollInfo.scrollTop + viewportHeight >= scrollInfo.scrollHeight - 10

\* A loop without the safety break.
NeverExceedsLimit(currentScroll) == FALSE

\* if (currentScroll > 50000) break
ExceedsLimit(currentScroll) == currentScroll > 50000

\* if (atBottom) { stuckCount++; if (stuckCount >= 2) break; ... }
\* if (currentScroll > 50000) break
AfterChecks(locals, viewportHeight) ==
  IF AtBottom(locals.scrollInfo, viewportHeight)
    THEN IF locals.stuckCount + 1 >= 2
           THEN [locals EXCEPT !.stuckCount = @ + 1, !.exit = "bottom"]
           ELSE IF ExceedsLimit(locals.currentScroll)
                  THEN [locals EXCEPT !.stuckCount = @ + 1, !.exit = "limit"]
                  ELSE [locals EXCEPT !.stuckCount = @ + 1]
    ELSE IF ExceedsLimit(locals.currentScroll) THEN [locals EXCEPT !.exit = "limit"]
    ELSE locals

\* One iteration of while (true), the page reporting scrollInfo
Iteration(locals, scrollIncrement, viewportHeight, scrollInfo) ==
  Bind([locals EXCEPT !.currentScroll = @ + scrollIncrement, !.iterations = @ + 1],
       LAMBDA scrolled : AfterChecks(AfterGrowth(scrolled, scrollInfo), viewportHeight))

\* More iterations than the loop can begin at the smallest increment of at
\* least 1px among ViewportHeights
MaxIterations == 90

\* window.innerHeight as the page reports it: the heights of
\* DEFAULT_CONFIG.viewport and DEFAULT_CONFIG.mobileViewport, for which the
\* increment is 756 and 590; 1px, for which it is 0; 10500px, for which the
\* product in doubles falls under 7350 and it is 7349; and 30000px
ViewportHeights == {1, 844, 1080, 10500, 30000}

\* document.documentElement.scrollHeight as the page reports it
ScrollHeights == {7000, 40000, 90000}

\* window.scrollY after scrollTo(y): the page followed as far as it can, or
\* did not move
ScrollTops(y, scrollHeight, viewportHeight) ==
  {0, IF scrollHeight - viewportHeight < 0 THEN 0
      ELSE IF y < scrollHeight - viewportHeight THEN y
      ELSE scrollHeight - viewportHeight}

ScrollInit ==
  /\ callArg \in {[fn |-> "simulateInteractions", viewportHeight |-> h] : h \in ViewportHeights}
  /\ callRet = <<>>
  /\ callPc = "called"
  /\ OrchIdle /\ ColorIdle /\ DedupIdle /\ ProcIdle

\* simulateInteractions up to the loop: let scrollInfo = await
\* getScrollInfo(); scrollIncrement; currentScroll = 0; lastScrollHeight;
\* stuckCount = 0
StartScrolling ==
  /\ callPc = "called"
  /\ callArg.fn = "simulateInteractions"
  /\ \E scrollHeight \in ScrollHeights :
       callRet' = [currentScroll |-> 0, lastScrollHeight |-> scrollHeight, stuckCount |-> 0,
                   scrollInfo |-> [scrollHeight |-> scrollHeight, scrollTop |-> 0],
                   iterations |-> 0, exit |-> "none"]
  /\ callPc' = "looping"
  /\ UNCHANGED <<callArg, orchVars, colorVars, dedupVars, procVars>>

\* One iteration of the loop; after a break the rest of the function runs
\* and the call returns
ScrollStep ==
  /\ callPc = "looping"
  /\ callRet.iterations < MaxIterations
  /\ \E scrollHeight \in ScrollHeights :
       \E scrollTop \in ScrollTops(callRet.currentScroll
                                     + ScrollIncrementOf(callArg.viewportHeight),
                                   scrollHeight, callArg.viewportHeight) :
         callRet' = Iteration(callRet, ScrollIncrementOf(callArg.viewportHeight),
                              callArg.viewportHeight,
                              [scrollHeight |-> scrollHeight, scrollTop |-> scrollTop])
  /\ callPc' = IF callRet'.exit # "none" THEN "returned" ELSE "looping"
  /\ UNCHANGED <<callArg, orchVars, colorVars, dedupVars, procVars>>

ScrollNext == StartScrolling \/ ScrollStep

SpecScroll == ScrollInit /\ [][ScrollNext]_vars

\* Every await of the loop is settled: the timeouts elapse and the page
\* answers page.evaluate
FairSpecScroll == SpecScroll /\ WF_vars(ScrollStep) /\ WF_vars(StartScrolling)

(***************************************************************************)
(* The extractors that return named or listed tokens: processSpacing,      *)
(* processRadii, processShadows and the palette of extractColors, each     *)
(* called once                                                             *)
(***************************************************************************)

TokensInit == SpacingInit \/ RadiiInit \/ ShadowInit \/ ExtractInit

TokensNext ==
  \/ ProcessSpacing
  \/ ProcessRadii
  \/ ProcessShadows
  \/ MapShadowsToScale
  \/ ExtractColors

SpecTokens == TokensInit /\ [][TokensNext]_vars

(***************************************************************************)
(* Specifications                                                          *)
(***************************************************************************)

ColorInit ==
  /\ cIn \in ColorInputs
  /\ cOut = NullStr
  /\ cTrip = NullStr
  /\ cPc = "input"
  /\ OrchIdle /\ DedupIdle /\ ProcIdle /\ CallIdle

ColorNext == Normalize \/ RoundTrip

SpecColor == ColorInit /\ [][ColorNext]_vars

DedupInit ==
  /\ dIn \in DedupInputs
  /\ dThr \in Thresholds
  /\ dOut1 = <<>>
  /\ dOut2 = <<>>
  /\ dPc = "input"
  /\ OrchIdle /\ ColorIdle /\ ProcIdle /\ CallIdle

DedupNext == RunDedup \/ RunDedupAgain

SpecDedup == DedupInit /\ [][DedupNext]_vars

ProcInit ==
  /\ pIn \in ProcInputs
  /\ pOut = <<>>
  /\ pPc = "input"
  /\ OrchIdle /\ ColorIdle /\ DedupIdle /\ CallIdle

ProcNext == Process

SpecProcess == ProcInit /\ [][ProcNext]_vars

(***************************************************************************)
(* runAllExtractors: failure isolation, fan-in                              *)
(***************************************************************************)

\* C1: runAllExtractors never rejects because an extractor failed: whatever
\* subset of the eight extractors throws, and whatever they throw, the call
\* does not end in an exception.
C1_NeverRejects == pc # "rejected"

\* C2: when runAllExtractors has returned, every extractor that failed with
\* an error has, in each of its output fields of the returned object, the
\* stub {error: message} carrying that error's message.
C2_FailedFieldsHoldStub ==
  pc = "returned" =>
    \A e \in Extractors :
      (extState[e] = "rejected" /\ extThrown[e][1] = "Error") =>
        \A f \in FieldsOf(e) : result[f] = <<"stub", <<"string", extThrown[e][2]>>>>

C4_ReturnsExactlyWhenAllSettled ==
  /\ (\E e \in Extractors : ~Settled(e)) => pc # "returned"
  /\ AllSettled => pc = "returned"

(***************************************************************************)
(* deduplicateColors: counts, idempotence, merged attributes               *)
(***************************************************************************)

\* The count of a colour record, a record without one counting once.
CountOf(c) == IF c.count.def THEN c.count.v ELSE 1

RECURSIVE SumCount(_)
SumCount(colors) ==
  IF colors = <<>> THEN 0
  ELSE SumCount(SubSeq(colors, 1, Len(colors) - 1)) + CountOf(colors[Len(colors)])

\* A record deduplicateColors does not skip, with a count of at least one.
Countable(c) ==
  /\ c.hex # <<>>
  /\ ~parseColor(c.hex).null
  /\ c.count.def => c.count.v >= 1

\* C5 as stated: for any input list, the counts of the clusters returned by
\* deduplicateColors add up to the counts of the input colours.
C5_CountSumPreserved ==
  dPc # "input" => SumCount(dOut1) = SumCount(dIn)

\* C5: for any input list whose colours all have a hex parseColor accepts and
\* a count that is absent or at least 1, the counts of the clusters returned
\* by deduplicateColors add up to the counts of the input colours.
C5_CountSumPreservedForCountable ==
  (dPc # "input" /\ \A i \in 1..Len(dIn) : Countable(dIn[i]))
    => SumCount(dOut1) = SumCount(dIn)

\* C5 witness: three countable colours, one of them without a count, merged
\* into a single cluster.
C5_Witness ==
  /\ dPc = "once"
  /\ Len(dIn) = 3
  /\ \A i \in 1..3 : Countable(dIn[i])
  /\ \E i \in 1..3 : ~dIn[i].count.def
  /\ \E i \in 1..3 : dIn[i].count = Some(2)
  /\ Len(dOut1) = 1

\* The clusters of a result as a set: hex, count, sources and confidence.
ClusterSet(out) ==
  {<<out[k].hex, out[k].count, out[k].sources, out[k].confidence>> : k \in 1..Len(out)}

\* C6: deduplicateColors applied to its own output returns the same set of
\* clusters, with the same hexes, counts, sources and confidences, and as
\* many of them.
C6_Idempotent ==
  dPc = "twice" => (Len(dOut2) = Len(dOut1) /\ ClusterSet(dOut2) = ClusterSet(dOut1))

\* C6 witness: the chain of three blues under the default threshold, the
\* middle one last and with the highest count: it merged into the first
\* cluster, and the second cluster is within the threshold of it.
C6_Witness ==
  /\ dPc = "twice"
  /\ dThr = 15
  /\ Len(dIn) = 3
  /\ dIn[1].hex = Blue1 /\ dIn[1].count = Some(1)
  /\ dIn[2].hex = Blue3 /\ dIn[2].count = Some(1)
  /\ dIn[3].hex = Blue2 /\ dIn[3].count = Some(2)
  /\ Len(dOut1) = 2
  /\ dOut1[1].count = Some(3)

\* The cluster (position in the result) the i-th input colour went to, 0
\* when it was skipped: the first earlier representative within the
\* threshold, or a new cluster after those the colours before it opened.
ClusterIndex(colors, i, threshold) ==
  LET before == deduplicateColors(SubSeq(colors, 1, i - 1), threshold)
      after == deduplicateColors(SubSeq(colors, 1, i), threshold)
      lab == rgbToLab(parseColor(colors[i].hex))
      hits == {k \in 1..Len(before) :
                 DeltaLt(deltaE2000(lab, rgbToLab(parseColor(before[k].hex))), threshold)}
  IN IF colors[i].hex = <<>> \/ parseColor(colors[i].hex).null THEN 0
     ELSE IF Len(after) > Len(before) THEN Len(after)
     ELSE CHOOSE k \in hits : \A j \in hits : k <= j

SourcesOf(c) == IF c.sources.def THEN Range(c.sources.v) ELSE {}

\* C7: each returned cluster's sources are the union of the sources of the
\* input colours merged into it, and its confidence is the highest among
\* theirs under high > medium > low.
C7_ClusterUnionAndHighest ==
  dPc # "input" =>
    \A k \in 1..Len(dOut1) :
      LET members == {i \in 1..Len(dIn) : ClusterIndex(dIn, i, dThr) = k}
      IN /\ SourcesOf(dOut1[k]) = UNION {SourcesOf(dIn[i]) : i \in members}
         /\ \A i \in members :
              ConfidenceOrder(dOut1[k].confidence) >= ConfidenceOrder(dIn[i].confidence)

(***************************************************************************)
(* normalizeToHex and the round trip through rgb()                         *)
(***************************************************************************)

IsHexDigit(c) == LowerChar(c) \in Range(HexChars)
IsUpperHexDigit(c) == c \in Range(toUpperCase(HexChars))

\* '#' followed by exactly six upper-case hexadecimal digits
IsUpperHex6(s) ==
  /\ Len(s) = 7
  /\ s[1] = "#"
  /\ \A i \in 2..7 : IsUpperHexDigit(s[i])

\* '#' followed by 3, 6 or 8 hexadecimal digits of either case
ValidHex(s) ==
  /\ Len(s) \in {4, 7, 9}
  /\ s[1] = "#"
  /\ \A i \in 2..Len(s) : IsHexDigit(s[i])

\* '#' followed by six hexadecimal digits of either case
IsHex6(s) == ValidHex(s) /\ Len(s) = 7

\* C8: normalizeToHex returns null or '#' followed by exactly six upper-case
\* hexadecimal digits, null in particular for hex strings with a digit that
\* is not hexadecimal.
C8_NullOrUpperHex6 ==
  cPc # "input" => (cOut = NullStr \/ IsUpperHex6(cOut))

\* C9 as stated: for every valid hex string h the round trip
\* normalizeToHex(formatRgb(hexToRgb(h))) equals h.
C9_RoundTripIdentity ==
  (cPc = "tripped" /\ ValidHex(cIn)) => cTrip = cIn

\* C9: for every h made of '#' and six hexadecimal digits the round trip
\* normalizeToHex(formatRgb(hexToRgb(h))) equals h in upper case, hence h
\* itself when h is in upper case.
C9_RoundTripUpperCase ==
  (cPc = "tripped" /\ IsHex6(cIn)) => cTrip = toUpperCase(cIn)

\* C9 witness: a six-digit hex of mixed case with a channel below 16 went
\* through the round trip.
C9_Witness ==
  /\ cPc = "tripped"
  /\ cIn = <<"#", "0", "a", "F", "0", "a", "F">>
  /\ cTrip = <<"#", "0", "A", "F", "0", "A", "F">>

(***************************************************************************)
(* processColors                                                           *)
(***************************************************************************)

\* The samples processColors aggregates: parsable and not transparent.
Kept(item) == ~parseColor(item.value).null /\ ~isTransparent(item.value)

KeptOf(hex) ==
  {i \in 1..Len(pIn) : Kept(pIn[i]) /\ normalizeToHex(pIn[i].value) = hex}

NoRepeat(s) == \A i, j \in 1..Len(s) : s[i] = s[j] => i = j

BlueTokens == {k \in 1..Len(callRet) : callRet[k].hex = Blue1}

\* The document holds both the displayed call-to-action button and the
\* navigation link that bear rgb(59, 130, 246).
BothBearBlue ==
  /\ CtaButton \in Range(callArg.elements)
  /\ NavLinkEl \in Range(callArg.elements)

\* C11: when the same value #3B82F6 is on a button/cta element and on a nav
\* link, extractColors returns exactly one token for #3B82F6 and its
\* confidence is high, whichever of the two elements comes first in the
\* document.
C11_OneHighTokenAnyOrder ==
  (callPc = "returned" /\ BothBearBlue) =>
    /\ Cardinality(BlueTokens) = 1
    /\ \A k \in BlueTokens : callRet[k].confidence = "high"

(***************************************************************************)
(* processColors: the colored-button boost                                 *)
(***************************************************************************)

\* The colour of a value is coloured: it parses, its alpha is not zero and
\* its lightness L* lies strictly between 5 (near black) and 95 (near white).
ColouredRgb(rgb) ==
  /\ ~rgb.null
  /\ ~IsZero(rgb.a)
  /\ Bind(rgbToLab(rgb), LAMBDA lab : ~lab.nan /\ 5000 < lab.l /\ lab.l < 95000)

ColouredValue(value) == Bind(parseColor(value), ColouredRgb)

\* The bonus the claim grants a sample
BonusOf(item) == IF item.isButton /\ ColouredValue(item.value) THEN 25 ELSE 0

ScoreWithBonus(item) == calculateContextScore(item) + BonusOf(item)

\* C12: processColors adds the flat +25 bonus to a sample's score exactly
\* when the element is button-like and its colour is not white or near
\* white, not black or near black and not transparent, so that a record's
\* score is the maximum of context score plus bonus over its samples; and
\* any hex seen on such an element gets confidence high.
C12_BoostExactlyForColoredButtons ==
  pPc = "done" =>
    /\ \A k \in 1..Len(pOut) :
         /\ \E i \in KeptOf(pOut[k].hex) : pOut[k].score.v = ScoreWithBonus(pIn[i])
         /\ \A i \in KeptOf(pOut[k].hex) : pOut[k].score.v >= ScoreWithBonus(pIn[i])
    /\ \A i \in 1..Len(pIn) :
         (pIn[i].isButton /\ ColouredValue(pIn[i].value)) =>
           \E k \in 1..Len(pOut) :
             /\ pOut[k].hex = normalizeToHex(pIn[i].value)
             /\ pOut[k].confidence = "high"

\* C12 witness: a red on a button-like card whose context alone scores low
\* is high, a white and a near-black (L* 3.6) on button-like elements get
\* no bonus.
C12_Witness ==
  /\ pPc = "done"
  /\ Len(pIn) = 3
  /\ \E k \in 1..Len(pOut) :
       /\ pOut[k].hex = <<"#", "F", "E", "0", "1", "0", "1">>
       /\ pOut[k].score = Some(29)
       /\ pOut[k].confidence = "high"
  /\ \E k \in 1..Len(pOut) :
       /\ pOut[k].hex = <<"#", "F", "F", "F", "F", "F", "F">>
       /\ pOut[k].score = Some(11)
       /\ pOut[k].confidence = "medium"
  /\ \E k \in 1..Len(pOut) :
       /\ pOut[k].hex = <<"#", "0", "D", "0", "D", "0", "D">>
       /\ pOut[k].score = Some(4)
       /\ pOut[k].confidence = "low"
  /\ \A i \in 1..3 : pIn[i].isButton

(***************************************************************************)
(* confidence.js: thresholds, merge and overall confidence                 *)
(***************************************************************************)

\* low < medium < high
Rank(c) == CASE c = "high" -> 3 [] c = "medium" -> 2 [] c = "low" -> 1

Returned(fn) == callPc = "returned" /\ callArg.fn = fn

\* C13: scoreToConfidence returns high for score > 20, medium for
\* 5 < score <= 20 and low otherwise, and is monotonic non-decreasing in
\* score under low < medium < high.
C13_ScoreThresholdsMonotonic ==
  Returned("scoreToConfidence") =>
    /\ callRet = "high" <=> callArg.score > 20
    /\ callRet = "medium" <=> (5 < callArg.score /\ callArg.score <= 20)
    /\ callRet = "low" <=> callArg.score <= 5
    /\ \A t \in Scores :
         t <= callArg.score => Rank(scoreToConfidence(t)) <= Rank(callRet)

\* C13 witness: the scores 20 and 5 themselves
C13_Witness ==
  /\ Returned("scoreToConfidence")
  /\ \/ callArg.score = 20 /\ callRet = "medium"
     \/ callArg.score = 5 /\ callRet = "low"

\* C14: countToConfidence is monotonic non-decreasing in count for any pair
\* of thresholds passed in, and with the default thresholds returns high
\* for count >= 10, medium for 3 <= count < 10 and low for count < 3.
C14_CountMonotonicAndDefaults ==
  Returned("countToConfidence") =>
    /\ \A c \in 0..MaxCount :
         c <= callArg.count =>
           Rank(countToConfidence(c, callArg.options)) <= Rank(callRet)
    /\ (~callArg.options.highThreshold.def /\ ~callArg.options.mediumThreshold.def) =>
         /\ callRet = "high" <=> callArg.count >= 10
         /\ callRet = "medium" <=> (3 <= callArg.count /\ callArg.count < 10)
         /\ callRet = "low" <=> callArg.count < 3

\* C14 witness: thresholds passed in the wrong order (medium above high),
\* and the default thresholds at their boundaries
C14_Witness ==
  /\ Returned("countToConfidence")
  /\ \/ /\ callArg.options.highThreshold = Some(4)
        /\ callArg.options.mediumThreshold = Some(9)
        /\ callArg.count = 6
        /\ callRet = "high"
     \/ /\ ~callArg.options.highThreshold.def
        /\ ~callArg.options.mediumThreshold.def
        /\ callArg.count = 10
        /\ callRet = "high"

\* C15: for all a and b in {high, medium, low}, mergeConfidence(a, b) is
\* whichever of the two ranks higher; it is commutative, associative and
\* idempotent on that set.
C15_MergeIsMaximum ==
  (Returned("mergeConfidence") /\ callArg.conf1 \in Levels /\ callArg.conf2 \in Levels) =>
    /\ callRet \in {callArg.conf1, callArg.conf2}
    /\ Rank(callRet) >= Rank(callArg.conf1)
    /\ Rank(callRet) >= Rank(callArg.conf2)
    /\ callRet = mergeConfidence(callArg.conf2, callArg.conf1)
    /\ \A c \in Levels :
         mergeConfidence(callRet, c)
           = mergeConfidence(callArg.conf1, mergeConfidence(callArg.conf2, c))
    /\ callArg.conf1 = callArg.conf2 => callRet = callArg.conf1

\* C15 witness: the second argument ranks higher and is returned
C15_Witness ==
  /\ Returned("mergeConfidence")
  /\ callArg.conf1 = "low"
  /\ callArg.conf2 = "high"
  /\ callRet = "high"

\* The tokens of the call with one of the confidences cs
ShareOf(cs) ==
  Cardinality({k \in 1..Len(callArg.tokens) : callArg.tokens[k].confidence \in cs})

\* C16: calculateOverallConfidence returns high exactly when more than 50%
\* of the tokens are high; otherwise medium exactly when more than 70% of
\* the tokens are high or medium; otherwise low, also for an empty list.
C16_OverallByShares ==
  Returned("calculateOverallConfidence") =>
    callRet = IF 2 * ShareOf({"high"}) > Len(callArg.tokens) THEN "high"
              ELSE IF 10 * ShareOf({"high", "medium"}) > 7 * Len(callArg.tokens)
                THEN "medium"
              ELSE "low"

(***************************************************************************)
(* processSpacing: base unit and named scale                               *)
(***************************************************************************)

\* The spacing samples [4, 8, 8, 16, 16, 16, 24] px
ScenarioSamples ==
  <<Num(4), Num(8), Num(8), Num(16), Num(16), Num(16), Num(24)>>

ScenarioProcessed ==
  Returned("processSpacing") /\ callArg.raw.values = ScenarioSamples

\* C17 as stated: for the samples [4, 8, 8, 16, 16, 16, 24] processSpacing
\* reports base unit 4px and a scale token sm = 8px with confidence medium.
C17_ScenarioUnit4Sm8Medium ==
  ScenarioProcessed =>
    /\ callRet.unit = <<"4", "p", "x">>
    /\ "sm" \in DOMAIN callRet.scale
    /\ callRet.scale["sm"] = [value |-> <<"8", "p", "x">>, confidence |-> "medium"]

\* C17 amended: for the samples [4, 8, 8, 16, 16, 16, 24] processSpacing
\* reports base unit 8px and the scale tokens xs = 8px with confidence low
\* (count 2) and sm = 16px with confidence medium (count 3), no others.
C17_ScenarioUnit8Xs8LowSm16Medium ==
  ScenarioProcessed =>
    /\ callRet.unit = <<"8", "p", "x">>
    /\ DOMAIN callRet.scale = {"xs", "sm"}
    /\ callRet.scale["xs"] = [value |-> <<"8", "p", "x">>, confidence |-> "low"]
    /\ callRet.scale["sm"] = [value |-> <<"1", "6", "p", "x">>, confidence |-> "medium"]

\* C17 witness: the scenario's samples have been processed; 16px, three
\* times, is also the page margin.
C17_Witness ==
  /\ ScenarioProcessed
  /\ callRet.unit = <<"8", "p", "x">>
  /\ callRet.pageMargin.def
  /\ callRet.pageMargin.value = <<"1", "6", "p", "x">>

\* The samples of the call that are multiples of 8
SamplesOfEight ==
  {k \in 1..Len(callArg.raw.values) :
     callArg.raw.values[k].d = 1 /\ callArg.raw.values[k].n % 8 = 0}

\* C18: the base unit is 8px exactly when at least 70% of the collected
\* samples are multiples of 8, and 4px in every other case, no samples
\* included.
C18_EightIffSeventyPercentOfSamples ==
  Returned("processSpacing") =>
    /\ callRet.unit \in {<<"8", "p", "x">>, <<"4", "p", "x">>}
    /\ callRet.unit = <<"8", "p", "x">> <=>
         /\ Len(callArg.raw.values) > 0
         /\ 10 * Cardinality(SamplesOfEight) >= 7 * Len(callArg.raw.values)

(***************************************************************************)
(* mapBreakpoints: standard names and defaults                             *)
(***************************************************************************)

\* The distance of a width from the nearest standard target of a name
DistanceTo(name, bp) ==
  CHOOSE d \in {Abs(bp - standards[name][i]) : i \in 1..Len(standards[name])} :
    \A i \in 1..Len(standards[name]) : d <= Abs(bp - standards[name][i])

\* Some detected width lies within 48px of a standard target, so that the
\* names are filled from the standard table.
FilledFromTable ==
  \E name \in DOMAIN standards, k \in 1..Len(callArg.breakpoints) :
    DistanceTo(name, callArg.breakpoints[k]) <= 48

\* C19: for a non-empty list of detected breakpoints, each name filled from
\* the standard table receives the detected value nearest to that name's
\* standard targets, a value within 48px of one of those targets.
C19_NearestWithinTolerance ==
  (Returned("mapBreakpoints") /\ Len(callArg.breakpoints) > 0 /\ FilledFromTable) =>
    \A name \in DOMAIN callRet :
      \E k \in 1..Len(callArg.breakpoints) :
        /\ callRet[name] = Px(callArg.breakpoints[k])
        /\ DistanceTo(name, callArg.breakpoints[k]) <= 48
        /\ \A j \in 1..Len(callArg.breakpoints) :
             DistanceTo(name, callArg.breakpoints[k])
               <= DistanceTo(name, callArg.breakpoints[j])

\* C20: given an empty breakpoint list, mapBreakpoints returns exactly the
\* four defaults sm = 640px, md = 768px, lg = 1024px, xl = 1280px.
C20_EmptyListGivesDefaults ==
  (Returned("mapBreakpoints") /\ callArg.breakpoints = <<>>) =>
    /\ DOMAIN callRet = {"sm", "md", "lg", "xl"}
    /\ callRet["sm"] = <<"6", "4", "0", "p", "x">>
    /\ callRet["md"] = <<"7", "6", "8", "p", "x">>
    /\ callRet["lg"] = <<"1", "0", "2", "4", "p", "x">>
    /\ callRet["xl"] = <<"1", "2", "8", "0", "p", "x">>

\* C20 witness: mapBreakpoints has returned for the empty list
C20_Witness ==
  /\ Returned("mapBreakpoints")
  /\ callArg.breakpoints = <<>>
  /\ "sm" \in DOMAIN callRet
  /\ "2xl" \notin DOMAIN callRet

(***************************************************************************)
(* detectFrameworks: Ant Design and minMatches                             *)
(***************************************************************************)

\* The number of elements of the page that carry the class
OccurrencesOf(cls) ==
  Cardinality({i \in 1..Len(callArg.doc) : cls \in Range(callArg.doc[i].classList)})

MinMatchesOf(name) ==
  FRAMEWORK_PATTERNS[CHOOSE i \in 1..Len(FRAMEWORK_PATTERNS) :
                       FRAMEWORK_PATTERNS[i].name = name].minMatches

\* C21: detectFrameworks reports Ant Design with confidence high whenever
\* the class ant-btn occurs at least 3 times on the page, and never reports
\* a framework whose matched-evidence count is below its minMatches.
C21_AntDesignAtThreeOccurrences ==
  Returned("detectFrameworks") =>
    /\ OccurrencesOf(<<"a", "n", "t", "-", "b", "t", "n">>) >= 3 =>
         \E k \in 1..Len(callRet) :
           callRet[k].name = "Ant Design" /\ callRet[k].confidence = "high"
    /\ \A k \in 1..Len(callRet) :
         callRet[k].matchCount >= MinMatchesOf(callRet[k].name)

(***************************************************************************)
(* processRadii: the radius scale                                          *)
(***************************************************************************)

RadiusNames == <<"none", "sm", "md", "lg", "xl", "full">>

\* The number of pixels a radius string stands for
RadiusNumber(value) == parseFloat(value)

\* The range of a bucket: sm (0, 4], md (4, 8], lg (8, 16], xl (16, 9999),
\* full 9999
InBucketRange(name, px) ==
  CASE name = "sm" -> RLt(Num(0), px) /\ ~RLt(Num(4), px)
    [] name = "md" -> RLt(Num(4), px) /\ ~RLt(Num(8), px)
    [] name = "lg" -> RLt(Num(8), px) /\ ~RLt(Num(16), px)
    [] name = "xl" -> RLt(Num(16), px) /\ RLt(px, Num(9999))
    [] name = "full" -> px = Num(9999)
    [] name = "none" -> px = Num(0)

\* The radii detected on the page, as processRadii groups them
DetectedRadii ==
  {RadiusNumber(normalizeRadius(callArg.rawRadii[i].value)) : i \in 1..Len(callArg.rawRadii)}

\* C25: the radius scale always contains none = 0px, every other bucket
\* present holds the smallest detected radius of its range (sm (0, 4], md
\* (4, 8], lg (8, 16], xl (16, 9999), full 9999px), and so the values present
\* increase strictly from none to full.
C25_SmallestRadiusPerBucket ==
  Returned("processRadii") =>
    /\ "none" \in DOMAIN callRet
    /\ callRet["none"].value = <<"0", "p", "x">>
    /\ \A name \in DOMAIN callRet \ {"none"} :
         /\ InBucketRange(name, RadiusNumber(callRet[name].value))
         /\ RadiusNumber(callRet[name].value) \in DetectedRadii
         /\ \A px \in DetectedRadii :
              InBucketRange(name, px) => ~RLt(px, RadiusNumber(callRet[name].value))
    /\ \A i, j \in 1..Len(RadiusNames) :
         (i < j /\ RadiusNames[i] \in DOMAIN callRet /\ RadiusNames[j] \in DOMAIN callRet) =>
           RLt(RadiusNumber(callRet[RadiusNames[i]].value),
               RadiusNumber(callRet[RadiusNames[j]].value))

(***************************************************************************)
(* processShadows and mapShadowsToScale: the shadow scale                  *)
(***************************************************************************)

ShadowNames == <<"sm", "md", "lg", "xl">>

\* The position (from 0) of the shadow a name receives among n shadows
PositionOf(name, n) ==
  CASE n >= 4 -> (CASE name = "sm" -> 0 [] name = "md" -> n \div 4
                    [] name = "lg" -> 2 * (n \div 4) [] name = "xl" -> n - 1)
    [] n = 3 -> (CASE name = "sm" -> 0 [] name = "md" -> 1 [] name = "lg" -> 2)
    [] n = 2 -> (CASE name = "sm" -> 0 [] name = "lg" -> 1)
    [] n = 1 -> 0

\* The names assigned among n shadows
NamesFor(n) ==
  CASE n >= 4 -> {"sm", "md", "lg", "xl"}
    [] n = 3 -> {"sm", "md", "lg"}
    [] n = 2 -> {"sm", "lg"}
    [] n = 1 -> {"md"}
    [] n = 0 -> {}

\* The shadows of the sorted list that are not of low confidence
NotLowShadows == SelectSeq(callArg.sorted, LAMBDA s : s.confidence # "low")

\* The distinct members of a list of normalized shadows that occur in it at
\* least three times
FrequentIn(normalized) ==
  {normalized[i] : i \in {k \in 1..Len(normalized) :
                            Cardinality({j \in 1..Len(normalized) :
                                           normalized[j] = normalized[k]}) >= 3}}

\* The distinct normalized shadows of the page used at least three times
FrequentShadows ==
  FrequentIn([i \in 1..Len(callArg.rawShadows) |->
                normalizeShadow(callArg.rawShadows[i].value)])

\* The tokens of the scale are distinct shadows of non-decreasing elevation
\* from sm to xl
AscendingScale(scale) ==
  Bind([name \in DOMAIN scale |-> estimateElevation(scale[name].value)],
       LAMBDA elevation :
         \A i, j \in 1..Len(ShadowNames) :
           (i < j /\ ShadowNames[i] \in DOMAIN scale /\ ShadowNames[j] \in DOMAIN scale) =>
             /\ scale[ShadowNames[i]].value # scale[ShadowNames[j]].value
             /\ ~RLt(elevation[ShadowNames[j]], elevation[ShadowNames[i]]))

NoLowToken(scale) == \A name \in DOMAIN scale : scale[name].confidence # "low"

\* C22: tokens of low confidence (used fewer than 3 times) are filtered from
\* the output: no spacing-scale token, radius-scale token, shadow-scale
\* token or palette colour in the extractors' results has confidence low.
C22_NoLowConfidenceInOutput ==
  /\ Returned("processSpacing") => NoLowToken(callRet.scale)
  /\ Returned("processRadii") => NoLowToken(callRet)
  /\ Returned("processShadows") => NoLowToken(callRet)
  /\ Returned("mapShadowsToScale") => NoLowToken(callRet)
  /\ Returned("extractColors") => NoLowToken(callRet)


(***************************************************************************)
(* categorizeColors: the slots filled from the colours and the variables   *)
(***************************************************************************)

HeuristicSlots == {"primary", "secondary", "background", "text", "border"}

\* A slot that holds a token the fills of categorizeColors put there
FilledHeuristically(ret, slot) ==
  ~ret.slots[slot].null /\ ret.slots[slot].usage # "From CSS variable"

\* C23: every slot among primary, secondary, background.default,
\* text.primary and border.default that categorizeColors fills from the
\* extracted colours rather than from a CSS variable holds a colour of
\* confidence high or medium.
C23_HeuristicSlotsAreSignificant ==
  Returned("categorizeColors") =>
    \A slot \in HeuristicSlots :
      FilledHeuristically(callRet, slot) =>
        callRet.slots[slot].confidence \in {"high", "medium"}

\* C28 as stated: every record deduplicateColors returns to extractColors
\* has the confidence scoreToConfidence gives for the record's own score.
C28_ConfidenceOfOwnScore ==
  Returned("deduplicateColors") =>
    \A k \in 1..Len(callRet) :
      callRet[k].confidence = scoreToConfidence(callRet[k].score.v)

\* C28: every record deduplicateColors returns to extractColors has a
\* confidence at least as high as the one scoreToConfidence gives for the
\* record's own score.
C28_ConfidenceAtLeastOfOwnScore ==
  Returned("deduplicateColors") =>
    \A k \in 1..Len(callRet) :
      ConfidenceOrder(callRet[k].confidence)
        >= ConfidenceOrder(scoreToConfidence(callRet[k].score.v))

\* A cluster returned with a confidence above that of its own score
C28_Witness ==
  /\ Returned("deduplicateColors")
  /\ \E k \in 1..Len(callRet) :
       /\ callRet[k].count.v > 1
       /\ callRet[k].confidence = "high"
       /\ scoreToConfidence(callRet[k].score.v) = "low"

\* The categories after the first n custom properties
CategoriesAfter(n) == mapVariablesToCategories(SubSeq(callArg.cssVariables, 1, n))

\* The n-th custom property changes at most one slot, and none that is taken
OneFreeSlotPerVariable(n) ==
  Bind(CategoriesAfter(n - 1),
       LAMBDA before :
         Bind(CategoriesAfter(n),
              LAMBDA after :
                /\ Cardinality({slot \in Slots : after[slot] # before[slot]}) <= 1
                /\ \A slot \in Slots : before[slot] # NullStr => after[slot] = before[slot]))

\* A slot the variables reach holds the variable's hex with confidence high
HoldsVariable(ret, slot) ==
  ret.varCategories[slot] # NullStr =>
    /\ ~ret.slots[slot].null
    /\ ret.slots[slot].hex = toUpperCase(ret.varCategories[slot])
    /\ ret.slots[slot].confidence = "high"
    /\ ret.slots[slot].usage = "From CSS variable"

\* C29: each custom property is mapped to at most one slot, a slot once
\* taken by a property is not overwritten by a later one, and a slot filled
\* from a CSS variable carries that variable's hex with confidence high and
\* is not replaced by a heuristically chosen colour.
C29_VariableSlotsKept ==
  Returned("categorizeColors") =>
    /\ \A n \in 1..Len(callArg.cssVariables) : OneFreeSlotPerVariable(n)
    /\ \A slot \in Slots : HoldsVariable(callRet, slot)


(***************************************************************************)
(* deduplicateColors: which input colours are returned                     *)
(***************************************************************************)

\* The colour has a hex that parseColor accepts
HasParsableHex(color) ==
  color.hex # <<>> /\ color.hex # NullStr /\ ~parseColor(color.hex).null

\* Delta-E2000 of two parsable colours is below the threshold
WithinThreshold(a, b, threshold) ==
  Bind(rgbToLab(parseColor(a.hex)),
       LAMBDA lab1 :
         Bind(rgbToLab(parseColor(b.hex)),
              LAMBDA lab2 : DeltaLt(deltaE2000(lab1, lab2), threshold)))

\* Not within the threshold of any of the colours at the indexes given
FarFromAll(colors, k, accepted, threshold) ==
  \A n \in 1..Len(accepted) : ~WithinThreshold(colors[k], colors[accepted[n]], threshold)

\* The indexes of the first n input colours that were not within the
\* threshold of a representative accepted before them; `parsable` says
\* whether colours without a parsable hex are left out
RECURSIVE AcceptedAmong(_, _, _, _)
AcceptedAmong(colors, n, threshold, parsable) ==
  IF n = 0 THEN <<>>
  ELSE Bind(AcceptedAmong(colors, n - 1, threshold, parsable),
            LAMBDA accepted :
              IF parsable /\ ~HasParsableHex(colors[n]) THEN accepted
              ELSE IF ~HasParsableHex(colors[n]) THEN Append(accepted, n)
              ELSE IF FarFromAll(colors, n, SelectSeq(accepted, LAMBDA j : HasParsableHex(colors[j])), threshold)
                THEN Append(accepted, n)
              ELSE accepted)

\* The clusters are the colours at the indexes given, in that order and
\* with their hex
ClustersAreInputs(clusters, colors, accepted) ==
  /\ Len(clusters) = Len(accepted)
  /\ \A n \in 1..Len(clusters) : clusters[n].hex = colors[accepted[n]].hex

\* No cluster is within the threshold of a cluster returned before it
ClustersApart(clusters, threshold) ==
  \A m, n \in 1..Len(clusters) :
    m < n => ~WithinThreshold(clusters[n], clusters[m], threshold)

\* C27 as stated: the clusters deduplicateColors returns are the input
\* colours, in input order and with their hex, that were not within the
\* threshold of a representative accepted before them, and no returned
\* cluster is within the threshold of one returned before it.
C27_ClustersAreFarInputs ==
  dPc = "once" =>
    /\ ClustersAreInputs(dOut1, dIn, AcceptedAmong(dIn, Len(dIn), dThr, FALSE))
    /\ ClustersApart(dOut1, dThr)

\* C27: the same of the input colours with a hex that parseColor accepts.
C27_ClustersAreFarParsableInputs ==
  dPc = "once" =>
    /\ ClustersAreInputs(dOut1, dIn, AcceptedAmong(dIn, Len(dIn), dThr, TRUE))
    /\ ClustersApart(dOut1, dThr)

\* Three colours of which the second joined the first and the third did not
C27_Witness ==
  /\ dPc = "once"
  /\ Len(dIn) = 3
  /\ \A k \in 1..3 : HasParsableHex(dIn[k])
  /\ WithinThreshold(dIn[2], dIn[1], dThr)
  /\ ~WithinThreshold(dIn[3], dIn[1], dThr)
  /\ Len(dOut1) = 2
  /\ dOut1[2].hex = dIn[3].hex


(***************************************************************************)
(* extractTypography: the style of a role with visible samples             *)
(***************************************************************************)

\* The values of one property that no other value of the role's samples
\* occurs more often than
MostCommonValues(samples, key) ==
  {samples[k][key] : k \in {i \in 1..Len(samples) :
      \A j \in 1..Len(samples) :
        Cardinality({n \in 1..Len(samples) : samples[n][key] = samples[j][key]})
          <= Cardinality({n \in 1..Len(samples) : samples[n][key] = samples[i][key]})}}

\* The optional field of a style for a value null stands for
OrAbsent(value, null) == IF value = null THEN AbsentSeq ELSE Some(value)

\* The style holds, property by property, a most common value of the
\* samples in the form processTypography gives it, and the confidence of
\* the number of samples
IsMostCommonStyle(style, samples) ==
  /\ \E size \in MostCommonValues(samples, "fontSize") :
       /\ style.fontSize = Some(size)
       /\ \E height \in MostCommonValues(samples, "lineHeight") :
            style.lineHeight = Some(normalizeLineHeight(height, size))
  /\ \E weight \in MostCommonValues(samples, "fontWeight") :
       style.fontWeight = Some(normalizeWeight(weight))
  /\ \E spacing \in MostCommonValues(samples, "letterSpacing") :
       style.letterSpacing = OrAbsent(spacing, <<"n", "o", "r", "m", "a", "l">>)
  /\ \E family \in MostCommonValues(samples, "fontFamily") :
       style.fontFamily = Some(parseFontFamily(family))
  /\ style.confidence
       = countToConfidence(Len(samples), [highThreshold |-> Absent, mediumThreshold |-> Absent])

\* C26: for every typography role with at least one visible sample,
\* extractTypography returns a style for that role in which each property
\* holds a value whose occurrence count is maximal among the role's
\* samples, with the confidence countToConfidence gives the sample count.
C26_MostCommonStylePerRole ==
  (callArg.fn = "extractTypography" /\ callPc # "called") =>
    \A role \in Range(TYPOGRAPHY_ROLES) :
      Len(SamplesOf(callArg.doc[role])) > 0 =>
        /\ callPc = "returned"
        /\ \E k \in 1..Len(callRet.styles) :
             /\ callRet.styles[k].context = role
             /\ IsMostCommonStyle(callRet.styles[k].style, SamplesOf(callArg.doc[role]))


(***************************************************************************)
(* simulateInteractions: the scroll loop ends                              *)
(***************************************************************************)

\* floor(50000 / scrollIncrement) + 1
IterationBound(viewportHeight) == (50000 \div ScrollIncrementOf(viewportHeight)) + 1

\* The call is one of simulateInteractions past its first getScrollInfo,
\* with a scroll increment of at least 1px
ScrollingByAtLeastOne ==
  /\ callArg.fn = "simulateInteractions"
  /\ callPc \in {"looping", "returned"}
  /\ ScrollIncrementOf(callArg.viewportHeight) >= 1

\* The loop has begun no more iterations than the bound, and was left, if
\* it was, after the bottom was seen twice since the height last grew or
\* after the scroll target passed 50000px
WithinIterationBound ==
  ScrollingByAtLeastOne =>
    /\ callRet.iterations <= IterationBound(callArg.viewportHeight)
    /\ callRet.currentScroll
         = callRet.iterations * ScrollIncrementOf(callArg.viewportHeight)
    /\ callPc = "returned" =>
         \/ callRet.exit = "bottom" /\ callRet.stuckCount >= 2
         \/ callRet.exit = "limit" /\ callRet.currentScroll > 50000

====
